---------------------------- MODULE Spec2Model ----------------------------
(***************************************************************************)
(* A model of the core of the NES emulator: the PPU timing state machine,  *)
(* its register ports, memories and pixel pipeline (pkg/ppu), the system    *)
(* bus with its OAM DMA (pkg/bus), the controller (pkg/controller), the    *)
(* iNES loader and the mappers (pkg/cartridge) and the system's Step,      *)
(* Reset and RunFrame (pkg/nes).                                           *)
(***************************************************************************)
EXTENDS Integers, Naturals, Sequences, FiniteSets, TLC

VARIABLES
    ppu,        \* PPU timing and register state (struct PPU)
    oam,        \* PPU.oam, 256 bytes
    oamAddress, \* PPU.oamAddress
    cpuRAM,     \* NESBus.cpuRAM, 2 KiB
    dma,        \* NESBus.dmaPage/dmaAddr/dmaData/dmaDummy/dmaTransfer
    m4,         \* Mapper4 IRQ registers
    cpu,        \* interrupt inputs of the external CPU core
    pc,         \* position of the host inside NES.RunFrame
    vram,       \* PPU.vramAddress/tempVRAMAddress/fineX/writeLatch/readBuffer/mirroringMode
    vmem,       \* PPU.nametable and PPU.paletteRAM
    spr,        \* PPU.spriteCount/sprite0Present
    pad,        \* controller 1 (NESBus.controller1)
    mmc1,       \* Mapper1 shift register and configuration registers
    cart,       \* the Cartridge LoadFromBytes returned, with its mapper's memories
    pix,        \* PPU.frameBuffer, the background pipeline and the sprite shifters
    obs         \* observations of the run (history only, never read by the program)

vars == <<ppu, oam, oamAddress, cpuRAM, dma, m4, cpu, pc, vram, vmem, spr, pad, mmc1, cart,
          pix, obs>>

\* the objects the timing, DMA and interrupt specifications never touch
rest == <<vram, vmem, spr, pad, mmc1, cart, pix>>

-----------------------------------------------------------------------------
(* Bounds of the model *)

\* number of frames the PPU is run for
MaxFrame == 3

\* number of OAM DMA transfers the CPU starts
MaxDMA == 2

\* number of times the host clocks the mapper's scanline counter by hand
MaxHostScanline == 2

\* number of scanlines the PPU is run for when the MMC3 IRQ is watched
MaxIRQLines == 4

\* largest IRQ latch value the program writes
MaxLatch == 2

\* number of register accesses of the program that drives the scroll registers
MaxAccess == 5

\* number of scanlines of the second frame the scroll registers are followed for
MaxScrollLines == 1

\* number of scanlines the sprite evaluation is followed for
MaxSpriteLines == 18

\* number of accesses of the program that drives the address and data ports
MaxPortAccess == 7

\* number of SetButton calls of the host, and of reads of $4016 after a strobe
MaxPresses == 2
MaxPadReads == 26

\* largest IRQ latch value, number of scanline() calls after a set-up and number of
\* set-ups when the MMC3 counter is clocked by hand
MaxCounterLatch == 5
MaxScanlineCalls == 8
MaxSetups == 2

\* largest PRG and CHR bank counts in the headers of the buffers handed to the loader
MaxPRGBanks == 2
MaxCHRBanks == 2

\* largest PRG and CHR bank counts of the cartridges the mappers are tried with, and
\* the numbers of CPU writes to cartridge space and of CHR writes
MaxCartPRG == 4
MaxCartCHR == 1
MaxCartWrites == 6
MaxCHRWrites == 1

\* number of scanlines the PPU is run for when the frame buffer is watched
MaxRenderLines == 2

\* number of Step calls before the reset that precedes the backdrop frame
MaxBackdropSteps == 1

\* number of times the program stores the backdrop byte before that reset
MaxBackdropWrites == 2

\* number of frames the PPU is run for when the host resets the system
MaxResetFrames == 2

\* number of resets of that host
MaxResets == 1

\* number of writes to mapper registers of the program that changes the mirroring
MaxMirrorWrites == 5

\* number of nametable bytes that program stores
MaxMirrorAccesses == 2

\* number of writes to the MMC1 registers
MaxMMC1Writes == 11

\* number of Step calls after a reset when the CPU/PPU ratio is watched
MaxSyncSteps == 300

\* number of resets when the CPU/PPU ratio is watched
MaxSyncResets == 1

-----------------------------------------------------------------------------
(* Program constants *)

CyclesPerScanline == 341
ScanlinesPerFrame == 262
VisibleScanlines == 240

Byte == 0..255

Bit(v, n) == (v \div (2 ^ n)) % 2

\* v with bit n cleared / set (8-bit registers)
ClearBit(v, n) == v - Bit(v, n) * (2 ^ n)
SetBit(v, n) == ClearBit(v, n) + 2 ^ n

-----------------------------------------------------------------------------
(* PPU registers (registers.go) *)

EnableNMI(control) == Bit(control, 7) # 0

RenderBackground(mask) == Bit(mask, 3) # 0

RenderSprites(mask) == Bit(mask, 4) # 0

IsRenderingEnabled(mask) == RenderBackground(mask) \/ RenderSprites(mask)

SetVBlank(status, value) == IF value THEN SetBit(status, 7) ELSE ClearBit(status, 7)

SetSprite0Hit(status, value) == IF value THEN SetBit(status, 6) ELSE ClearBit(status, 6)

SetSpriteOverflow(status, value) == IF value THEN SetBit(status, 5) ELSE ClearBit(status, 5)

VBlank(status) == Bit(status, 7) # 0

ControlNametableX(control) == Bit(control, 0)

ControlNametableY(control) == Bit(control, 1)

IncrementMode(control) == IF Bit(control, 2) # 0 THEN 32 ELSE 1

SpriteSize(control) == Bit(control, 5)

-----------------------------------------------------------------------------
(* LoopyRegister: the 15-bit scroll/address register, held in a uint16     *)

\* Set without the 15-bit mask
LoopySetNoMask(value) == value

LoopySet(value) == value % 32768

CoarseX(r) == r % 32

SetCoarseX(r, value) == ((r % 32768) - (r % 32)) + (value % 32)

CoarseY(r) == (r \div 32) % 32

SetCoarseY(r, value) == ((r % 32768) - CoarseY(r) * 32) + (value % 32) * 32

NametableX(r) == (r \div 1024) % 2

SetNametableX(r, value) ==
    IF value # 0 THEN r - NametableX(r) * 1024 + 1024 ELSE r - NametableX(r) * 1024

NametableY(r) == (r \div 2048) % 2

SetNametableY(r, value) ==
    IF value # 0 THEN r - NametableY(r) * 2048 + 2048 ELSE r - NametableY(r) * 2048

FineY(r) == (r \div 4096) % 8

SetFineY(r, value) == (r % 4096) + (value % 8) * 4096

IncrementX(r) ==
    IF CoarseX(r) = 31
    THEN LET r0 == SetCoarseX(r, 0) IN SetNametableX(r0, (NametableX(r0) + 1) % 2)
    ELSE SetCoarseX(r, CoarseX(r) + 1)

\* a vertical increment that flips the nametable at row 31 as it does at row 29
IncrementYFlippingAtRow31(r) ==
    IF FineY(r) < 7
    THEN SetFineY(r, FineY(r) + 1)
    ELSE LET r0 == SetFineY(r, 0)
             y == CoarseY(r0)
         IN IF y = 29 \/ y = 31
            THEN SetCoarseY(SetNametableY(r0, (NametableY(r0) + 1) % 2), 0)
            ELSE SetCoarseY(r0, y + 1)

IncrementY(r) ==
    IF FineY(r) < 7
    THEN SetFineY(r, FineY(r) + 1)
    ELSE LET r0 == SetFineY(r, 0)
             y == CoarseY(r0)
         IN CASE y = 29 -> SetCoarseY(SetNametableY(r0, (NametableY(r0) + 1) % 2), 0)
              [] y = 31 -> SetCoarseY(r0, 0)
              [] OTHER -> SetCoarseY(r0, y + 1)

\* r & 0x7BE0 | source & 0x041F
TransferX(r, source) ==
    (FineY(r) * 4096 + NametableY(r) * 2048 + CoarseY(r) * 32)
        + (NametableX(source) * 1024 + CoarseX(source))

\* r & 0x041F | source & 0x7BE0
TransferY(r, source) ==
    (NametableX(r) * 1024 + CoarseX(r))
        + (FineY(source) * 4096 + NametableY(source) * 2048 + CoarseY(source) * 32)

-----------------------------------------------------------------------------
(* PPU timing (PPU.Clock).  The pixel pipeline of Clock (renderPixel, the  *)
(* shifters and the tile fetches) writes only rendering state and is not   *)
(* part of the timing state below.                                         *)

NewPPU ==
    [scanline |-> 0, cycle |-> 0, frame |-> 0, oddFrame |-> FALSE,
     frameComplete |-> FALSE, control |-> 0, mask |-> 0, status |-> 0,
     nmiOutput |-> FALSE]

\* a pre-render clear that leaves the sprite-0-hit flag as it is
ClockPreRenderKeepsHit(p) ==
    IF p.scanline = -1 /\ p.cycle = 1
    THEN [p EXCEPT !.status = SetSpriteOverflow(SetVBlank(p.status, FALSE), FALSE),
                   !.frameComplete = FALSE]
    ELSE p

\* scanline -1, cycle 1: clear the status flags and frame-complete
ClockPreRender(p) ==
    IF p.scanline = -1 /\ p.cycle = 1
    THEN [p EXCEPT !.status = SetSpriteOverflow(SetSprite0Hit(SetVBlank(p.status, FALSE), FALSE), FALSE),
                   !.frameComplete = FALSE]
    ELSE p

\* a VBlank tick that latches the NMI whatever PPUCTRL holds
ClockVBlankAlwaysLatches(p) ==
    IF p.scanline = 241 /\ p.cycle = 1
    THEN [p EXCEPT !.status = SetVBlank(p.status, TRUE), !.nmiOutput = TRUE]
    ELSE p

\* scanline 241, cycle 1: set VBlank, latch the NMI when enabled
ClockVBlank(p) ==
    IF p.scanline = 241 /\ p.cycle = 1
    THEN [p EXCEPT !.status = SetVBlank(p.status, TRUE),
                   !.nmiOutput = IF EnableNMI(p.control) THEN TRUE ELSE p.nmiOutput]
    ELSE p

\* the scanline at which the frame wraps back to the pre-render line
FrameWrap(scanline) == scanline >= ScanlinesPerFrame

\* ClockAdvance that starts the same scanline again at the end of a line
ClockAdvanceRepeatsLine(p) ==
    LET c1 == p.cycle + 1 IN
    IF c1 >= CyclesPerScanline
    THEN [p EXCEPT !.cycle = 0]
    ELSE [p EXCEPT !.cycle = c1]

\* advance timing: cycle++, end of scanline, odd-frame skip, end of frame
ClockAdvance(p) ==
    LET c1 == p.cycle + 1 IN
    IF c1 >= CyclesPerScanline
    THEN LET s1 == p.scanline + 1
             c2 == IF s1 = 0 /\ (p.frame % 2) = 1 /\ IsRenderingEnabled(p.mask)
                   THEN 1 ELSE 0
         IN IF FrameWrap(s1)
            THEN [p EXCEPT !.cycle = c2, !.scanline = -1, !.frameComplete = TRUE,
                           !.frame = p.frame + 1, !.oddFrame = ~p.oddFrame]
            ELSE [p EXCEPT !.cycle = c2, !.scanline = s1]
    ELSE [p EXCEPT !.cycle = c1]

PPUClock(p) == ClockAdvance(ClockVBlank(ClockPreRender(p)))

GetNMI(p) == p.nmiOutput

\* GetNMI that returns the latch without clearing it
AfterGetNMIKeepsLatch(p) == p

AfterGetNMI(p) == [p EXCEPT !.nmiOutput = FALSE]

ClearFrameComplete(p) == [p EXCEPT !.frameComplete = FALSE]

\* the scroll and data-port part of PPU.Reset
VRAMReset(r) ==
    [r EXCEPT !.writeLatch = FALSE, !.v = LoopySet(0), !.t = LoopySet(0), !.fineX = 0,
              !.readBuffer = 0]

PPUReset(p) ==
    [p EXCEPT !.control = 0, !.mask = 0, !.status = 0, !.scanline = 0,
              !.cycle = 0, !.nmiOutput = FALSE]

-----------------------------------------------------------------------------
(* Memories.  A Go array starts zero-filled; a memory is kept as the map   *)
(* of its nonzero cells, so that equal contents are equal values.          *)

NewMem == <<>>

MemRead(mem, a) == IF a \in DOMAIN mem THEN mem[a] ELSE 0

MemWrite(mem, a, v) ==
    IF v = 0
    THEN [x \in (DOMAIN mem) \ {a} |-> mem[x]]
    ELSE [x \in (DOMAIN mem) \cup {a} |-> IF x = a THEN v ELSE mem[x]]

-----------------------------------------------------------------------------
(* Observations: history of the run, kept beside the program state *)

NoObs ==
    [watch |-> "none", started |-> FALSE,
     ticks |-> 0, seen |-> FALSE, lastLen |-> 0, prevLen |-> 0,
     nmiDue |-> 0, nmiRaised |-> 0, lastGet |-> FALSE,
     runFrames |-> 0,
     dmaStarted |-> 0, dmaClocks |-> 0, dmaDone |-> FALSE, dmaFirstDummy |-> FALSE,
     dmaFrom |-> 0,
     lines |-> 0, hostScanlines |-> 0, irqSetup |-> FALSE, stepIRQ |-> FALSE,
     steps |-> 0, ppuTicks |-> 0, resets |-> 0,
     accesses |-> 0, lastAddr |-> 0, lastValue |-> 0, lastRead |-> 0,
     fell |-> FALSE, latched |-> {}, changed |-> FALSE, reads |-> 0, presses |-> 0,
     pos |-> 0, bits |-> 0, writes |-> 0,
     setups |-> 0, calls |-> 0, fired |-> 0, pendingAtSetup |-> FALSE,
     input |-> <<>>,
     select |-> 0, mode |-> 0, r6 |-> 0, r7 |-> 0, pendingWas |-> FALSE,
     committed |-> FALSE, control |-> 0,
     phase |-> 0, hi |-> 0, latchWas |-> FALSE, vWas |-> 0, bufWas |-> 0, memWas |-> 0,
     lastOp |-> "none"]

\* what a run observes: "frames" the frame lengths, "nmi" the NMI latches,
\* "irq" the rendered scanlines, "sync" the numbers of steps and of PPU ticks;
\* any other run only that it has started
Watching(w) == [NoObs EXCEPT !.watch = w]

\* one PPU tick taking the PPU from p to q
ObserveTick(o, p, q) ==
    LET event == ~p.frameComplete /\ q.frameComplete
        wrap == q.frame # p.frame
        due == p.scanline = 241 /\ p.cycle = 1 /\ EnableNMI(p.control)
        line == /\ p.scanline >= 0 /\ p.scanline < VisibleScanlines
                /\ q.scanline # p.scanline /\ IsRenderingEnabled(p.mask)
    IN CASE o.watch = "frames" ->
              [o EXCEPT !.started = TRUE,
                        !.ticks = IF event THEN 0 ELSE o.ticks + 1,
                        !.seen = o.seen \/ event,
                        !.lastLen = IF event THEN (IF o.seen THEN o.ticks + 1 ELSE 0)
                                    ELSE o.lastLen,
                        !.prevLen = IF event THEN o.lastLen ELSE o.prevLen]
         [] o.watch = "nmi" ->
              [o EXCEPT !.started = TRUE,
                        !.nmiDue = IF wrap THEN 0 ELSE IF due THEN o.nmiDue + 1 ELSE o.nmiDue,
                        !.nmiRaised = IF wrap THEN 0 ELSE o.nmiRaised]
         [] o.watch = "irq" ->
              [o EXCEPT !.started = TRUE,
                        !.lines = IF line /\ o.lines < 256 THEN o.lines + 1 ELSE o.lines]
         [] o.watch = "sync" ->
              [o EXCEPT !.started = TRUE, !.ppuTicks = o.ppuTicks + 1]
         [] o.watch = "none" ->
                     [o EXCEPT !.started = TRUE,
                               !.runFrames = IF wrap THEN o.runFrames + 1 ELSE o.runFrames]
         [] OTHER -> [o EXCEPT !.started = TRUE]

-----------------------------------------------------------------------------
(* The system as one value: the objects NewFromCartridge wires together *)

NewDMA == [page |-> 0, addr |-> 0, data |-> 0, dummy |-> FALSE, transfer |-> FALSE]

NewMapper4 ==
    [irqLatch |-> 0, irqCounter |-> 0, irqEnabled |-> FALSE, irqPending |-> FALSE,
     irqReloadFlag |-> FALSE,
     bankSelect |-> 0, prgMode |-> 0, chrMode |-> 0,
     registers |-> <<0, 0, 0, 0, 0, 0, 0, 0>>, mirroring |-> 0,
     prgRAMEnabled |-> TRUE, prgRAMWriteProtect |-> FALSE]

NewCPU == [NMIPending |-> FALSE, IRQPending |-> FALSE]

\* mirroring modes of the nametables
MirrorHorizontal == 0
MirrorVertical == 1
MirrorSingleLow == 2
MirrorSingleHigh == 3
MirrorFourScreen == 4

\* the scroll and data-port registers of NewPPU, all zero
NewVRAM ==
    [v |-> 0, t |-> 0, fineX |-> 0, writeLatch |-> FALSE, readBuffer |-> 0,
     mirroringMode |-> MirrorHorizontal]

NewVMem == [nametable |-> NewMem, paletteRAM |-> NewMem, fault |-> FALSE]

NewSprites == [spriteCount |-> 0, sprite0Present |-> FALSE]

ScreenWidth == 256
ScreenHeight == 240

\* PPU.frameBuffer is kept as its runs of equal bytes, in index order, each with the
\* index after its last byte, no two neighbouring runs with the same byte; the other
\* fields are the zero values of
\* the background latches and shifters, of secondaryOAM [32]uint8 and of the four
\* [8]uint8 sprite arrays
NewPixels ==
    [frameBuffer |-> <<[value |-> 0, end |-> ScreenWidth * ScreenHeight]>>,
     bgNextTileID |-> 0, bgNextTileAttrib |-> 0, bgNextTileLSB |-> 0, bgNextTileMSB |-> 0,
     bgShifterPatternLo |-> 0, bgShifterPatternHi |-> 0,
     bgShifterAttribLo |-> 0, bgShifterAttribHi |-> 0,
     secondaryOAM |-> [i \in 0..31 |-> 0],
     spriteShifterPatternLo |-> [i \in 0..7 |-> 0],
     spriteShifterPatternHi |-> [i \in 0..7 |-> 0],
     spriteAttributes |-> [i \in 0..7 |-> 0],
     spritePositions |-> [i \in 0..7 |-> 0]]

NewController == [buttons |-> {}, strobe |-> FALSE, index |-> 0]

NewMapper1 ==
    [shiftRegister |-> 16, shiftCount |-> 0, mirroring |-> 0, prgMode |-> 3,
     chrMode |-> 0, chrBank0 |-> 0, chrBank1 |-> 0, prgBank |-> 0,
     prgRAMEnabled |-> TRUE]

-----------------------------------------------------------------------------
(* The iNES loader.  A byte buffer is its length, its first eight bytes    *)
(* (bytes 8..15 of the header are never read) and the rule that gives the  *)
(* bytes from offset 16 on.                                                *)

inesHeaderSize == 16
prgROMBankSize == 16384
chrROMBankSize == 8192

inesMagic == <<78, 69, 83, 26>>

\* data[i]: the "tagged" fill gives every 4 KiB block of the file and every offset
\* modulo 4 its own byte; the "vector" fill is the zero-filled 16 KiB PRG image of
\* cmd/test-mappers with 00 80 at PRG offsets 0x3FFC and 0x3FFD
DataByte(data, i) ==
    IF i < 8 THEN data.head[i + 1]
    ELSE IF i < inesHeaderSize THEN 0
    ELSE IF data.fill = "vector" THEN (IF i = inesHeaderSize + 16381 THEN 128 ELSE 0)
    ELSE (((i - inesHeaderSize) \div 4096) % 60) * 4 + (i % 4) + 1

\* the ROM image cmd/test-mappers builds for mapper id
TestImage(id) ==
    [len |-> inesHeaderSize + prgROMBankSize + chrROMBankSize,
     head |-> <<78, 69, 83, 26, 1, 1, (id * 16) % 256, 0>>, fill |-> "vector"]

\* the size the header asks for
RequiredSize(prg, chr, flags6) ==
    inesHeaderSize + (IF (flags6 \div 4) % 2 = 1 THEN 512 ELSE 0)
        + prgROMBankSize * prg + chrROMBankSize * chr

\* a buffer of exactly the size its header asks for
Image(id, prg, chr, low) ==
    [len |-> RequiredSize(prg, chr, low),
     head |-> <<78, 69, 83, 26, prg, chr, (id % 16) * 16 + low, (id \div 16) * 16>>,
     fill |-> "tagged"]

parseINESHeader(data) ==
    LET flags6 == DataByte(data, 6)
        flags7 == DataByte(data, 7)
        fourScreen == (flags6 \div 8) % 2 = 1
    IN [prgBanks |-> DataByte(data, 4), chrBanks |-> DataByte(data, 5),
        mirroring |-> IF fourScreen THEN MirrorFourScreen ELSE flags6 % 2,
        hasSaveRAM |-> (flags6 \div 2) % 2 = 1,
        hasTrainer |-> (flags6 \div 4) % 2 = 1,
        fourScreen |-> fourScreen,
        mapperID |-> (flags7 \div 16) * 16 + (flags6 \div 16)]

\* a mapper as created from prgLen bytes of PRG-ROM and chrLen bytes of CHR-ROM:
\* the bank counts each constructor derives (uint8), the CHR memory and the
\* registers of the mappers without a model of their own (0, 2, 3 and 7)
NewMapper(id, prgLen, chrLen, mirroring) ==
    [prgBanks |-> CASE id = 4 -> (prgLen \div 8192) % 256
                    [] id = 7 -> (prgLen \div 32768) % 256
                    [] OTHER -> (prgLen \div 16384) % 256,
     chrBanks |-> CASE id = 1 -> IF chrLen > 0 THEN (chrLen \div 4096) % 256 ELSE 2
                    [] id = 4 -> IF chrLen > 0 THEN (chrLen \div 1024) % 256 ELSE 8
                    [] id = 3 -> (chrLen \div 8192) % 256
                    [] OTHER -> 0,
     chrIsRAM |-> CASE id \in {2, 7} -> TRUE
                    [] id = 3 -> FALSE
                    [] OTHER -> chrLen = 0,
     chrMemLen |-> CASE id \in {2, 7} -> 8192
                     [] id = 3 -> chrLen
                     [] OTHER -> IF chrLen > 0 THEN chrLen ELSE 8192,
     prgBank |-> 0, chrBank |-> 0,
     mirroring |-> IF id = 7 THEN MirrorSingleLow ELSE mirroring,
     prgRAM |-> NewMem, chrRAM |-> NewMem]

SupportedMappers == {0, 1, 2, 3, 4, 7}

\* what LoadFromBytes returns when it fails
LoadError(data, text) ==
    [ok |-> FALSE, err |-> text, mapperID |-> 0, prgBanks |-> 0, chrBanks |-> 0,
     mirroring |-> 0, hasSaveRAM |-> FALSE, hasTrainer |-> FALSE,
     prgOff |-> 0, prgLen |-> 0, chrOff |-> 0, chrLen |-> 0, data |-> data,
     m |-> NewMapper(0, 0, 0, 0)]

\* the offset of the PRG-ROM that skips no trainer
ROMOffsetNoTrainer(header) == inesHeaderSize

\* the offset of the PRG-ROM in the file
ROMOffset(header) == inesHeaderSize + (IF header.hasTrainer THEN 512 ELSE 0)

LoadFromBytes(data) ==
    IF data.len < inesHeaderSize
    THEN LoadError(data, "file too small to be a valid iNES ROM")
    ELSE IF <<DataByte(data, 0), DataByte(data, 1), DataByte(data, 2), DataByte(data, 3)>>
            # inesMagic
    THEN LoadError(data, "invalid iNES header magic")
    ELSE LET header == parseINESHeader(data)
             offset == ROMOffset(header)
             prgSize == header.prgBanks * prgROMBankSize
             chrSize == header.chrBanks * chrROMBankSize
         IN IF data.len < offset + prgSize
            THEN LoadError(data, "file too small for PRG-ROM data")
            ELSE IF chrSize > 0 /\ data.len < offset + prgSize + chrSize
            THEN LoadError(data, "file too small for CHR-ROM data")
            ELSE IF header.mapperID \notin SupportedMappers
            THEN LoadError(data, "unsupported mapper")
            ELSE [ok |-> TRUE, err |-> "", mapperID |-> header.mapperID,
                  prgBanks |-> header.prgBanks, chrBanks |-> header.chrBanks,
                  mirroring |-> header.mirroring, hasSaveRAM |-> header.hasSaveRAM,
                  hasTrainer |-> header.hasTrainer,
                  prgOff |-> offset, prgLen |-> prgSize,
                  chrOff |-> offset + prgSize, chrLen |-> chrSize, data |-> data,
                  m |-> NewMapper(header.mapperID, prgSize, chrSize, header.mirroring)]

\* no cartridge: the caller of LoadFromBytes has not called it yet
NoCartridge == LoadError([len |-> 0, head |-> <<>>, fill |-> "tagged"], "not loaded")

Sys ==
    [ppu |-> ppu, oam |-> oam, oamAddress |-> oamAddress, cpuRAM |-> cpuRAM,
     dma |-> dma, m4 |-> m4, cpu |-> cpu, vram |-> vram, vmem |-> vmem,
     spr |-> spr, pad |-> pad, mmc1 |-> mmc1, cart |-> cart, pix |-> pix, obs |-> obs]

SetSys(s) ==
    /\ ppu' = s.ppu
    /\ oam' = s.oam
    /\ oamAddress' = s.oamAddress
    /\ cpuRAM' = s.cpuRAM
    /\ dma' = s.dma
    /\ m4' = s.m4
    /\ cpu' = s.cpu
    /\ vram' = s.vram
    /\ vmem' = s.vmem
    /\ spr' = s.spr
    /\ pad' = s.pad
    /\ mmc1' = s.mmc1
    /\ cart' = s.cart
    /\ pix' = s.pix
    /\ obs' = s.obs

\* the system built around cartridge c, or around no cartridge when the load failed
InitWith(w, c) ==
    /\ ppu = NewPPU
    /\ oam = NewMem
    /\ oamAddress = 0
    /\ cpuRAM = NewMem
    /\ dma = NewDMA
    /\ m4 = [NewMapper4 EXCEPT !.mirroring = c.mirroring]
    /\ cpu = NewCPU
    /\ pc = "idle"
    /\ vram = [NewVRAM EXCEPT !.mirroringMode = c.mirroring]
    /\ vmem = NewVMem
    /\ spr = NewSprites
    /\ pad = NewController
    /\ mmc1 = [NewMapper1 EXCEPT !.mirroring = c.mirroring]
    /\ cart = c
    /\ pix = NewPixels
    /\ obs = Watching(w)

\* the system built around the MMC3 image of cmd/test-mappers
InitWatching(w) == InitWith(w, LoadFromBytes(TestImage(4)))

Init == InitWatching("none")

\* one PPU.Clock call, observed
Tick(s) == [s EXCEPT !.ppu = PPUClock(s.ppu), !.obs = ObserveTick(s.obs, s.ppu, PPUClock(s.ppu))]

-----------------------------------------------------------------------------
(* Mapper4 (MMC3): IRQ registers and scanline counter *)

\* WritePRG whose IRQ disable leaves a pending IRQ standing
Mapper4WritePRGDisableKeepsPending(m, addr, value) ==
    CASE addr >= 32768 /\ addr < 40960 /\ addr % 2 = 0 ->
            [m EXCEPT !.bankSelect = value % 8, !.prgMode = Bit(value, 6),
                      !.chrMode = Bit(value, 7)]
      [] addr >= 32768 /\ addr < 40960 /\ addr % 2 = 1 ->
            [m EXCEPT !.registers[m.bankSelect + 1] = value]
      [] addr >= 40960 /\ addr < 49152 /\ addr % 2 = 0 ->
            [m EXCEPT !.mirroring = IF value % 2 = 0 THEN 1 ELSE 0]
      [] addr >= 40960 /\ addr < 49152 /\ addr % 2 = 1 ->
            [m EXCEPT !.prgRAMWriteProtect = (Bit(value, 6) = 1),
                      !.prgRAMEnabled = (Bit(value, 7) = 1)]
      [] addr >= 49152 /\ addr < 57344 /\ addr % 2 = 0 -> [m EXCEPT !.irqLatch = value]
      [] addr >= 49152 /\ addr < 57344 /\ addr % 2 = 1 ->
            [m EXCEPT !.irqCounter = 0, !.irqReloadFlag = TRUE]
      [] addr >= 57344 /\ addr % 2 = 0 -> [m EXCEPT !.irqEnabled = FALSE]
      [] addr >= 57344 /\ addr % 2 = 1 -> [m EXCEPT !.irqEnabled = TRUE]
      [] OTHER -> m

\* WritePRG, $C000-$FFFF: IRQ latch / reload / disable / enable
Mapper4WritePRG(m, addr, value) ==
    CASE addr >= 32768 /\ addr < 40960 /\ addr % 2 = 0 ->
            [m EXCEPT !.bankSelect = value % 8, !.prgMode = Bit(value, 6),
                      !.chrMode = Bit(value, 7)]
      [] addr >= 32768 /\ addr < 40960 /\ addr % 2 = 1 ->
            [m EXCEPT !.registers[m.bankSelect + 1] = value]
      [] addr >= 40960 /\ addr < 49152 /\ addr % 2 = 0 ->
            [m EXCEPT !.mirroring = IF value % 2 = 0 THEN 1 ELSE 0]
      [] addr >= 40960 /\ addr < 49152 /\ addr % 2 = 1 ->
            [m EXCEPT !.prgRAMWriteProtect = (Bit(value, 6) = 1),
                      !.prgRAMEnabled = (Bit(value, 7) = 1)]
      [] addr >= 49152 /\ addr < 57344 /\ addr % 2 = 0 -> [m EXCEPT !.irqLatch = value]
      [] addr >= 49152 /\ addr < 57344 /\ addr % 2 = 1 ->
            [m EXCEPT !.irqCounter = 0, !.irqReloadFlag = TRUE]
      [] addr >= 57344 /\ addr % 2 = 0 -> [m EXCEPT !.irqEnabled = FALSE, !.irqPending = FALSE]
      [] addr >= 57344 /\ addr % 2 = 1 -> [m EXCEPT !.irqEnabled = TRUE]
      [] OTHER -> m

\* Scanline that decrements the counter it has just reloaded
Mapper4ScanlineCountsReload(m) ==
    LET m1 == IF m.irqCounter = 0 \/ m.irqReloadFlag
              THEN [m EXCEPT !.irqCounter = IF m.irqLatch = 0 THEN 0 ELSE m.irqLatch - 1,
                             !.irqReloadFlag = FALSE]
              ELSE [m EXCEPT !.irqCounter = m.irqCounter - 1]
    IN IF m1.irqCounter = 0 /\ m1.irqEnabled
       THEN [m1 EXCEPT !.irqPending = TRUE]
       ELSE m1

Mapper4Scanline(m) ==
    LET m1 == IF m.irqCounter = 0 \/ m.irqReloadFlag
              THEN [m EXCEPT !.irqCounter = m.irqLatch, !.irqReloadFlag = FALSE]
              ELSE [m EXCEPT !.irqCounter = m.irqCounter - 1]
    IN IF m1.irqCounter = 0 /\ m1.irqEnabled
       THEN [m1 EXCEPT !.irqPending = TRUE]
       ELSE m1

IRQPending(m) == m.irqPending

ClearIRQ(m) == [m EXCEPT !.irqPending = FALSE]

-----------------------------------------------------------------------------
(* Mapper1 (MMC1): the serial shift register and the four registers it     *)
(* commits to                                                              *)

\* writeRegister: control, CHR bank 0, CHR bank 1, PRG bank by address
Mapper1writeRegister(m, addr, value) ==
    CASE addr >= 32768 /\ addr < 40960 ->
            [m EXCEPT !.mirroring = value % 4, !.prgMode = (value \div 4) % 4,
                      !.chrMode = (value \div 16) % 2]
      [] addr >= 40960 /\ addr < 49152 -> [m EXCEPT !.chrBank0 = value % 32]
      [] addr >= 49152 /\ addr < 57344 -> [m EXCEPT !.chrBank1 = value % 32]
      [] addr >= 57344 -> [m EXCEPT !.prgBank = value % 16,
                                    !.prgRAMEnabled = ((value \div 16) % 2 = 0)]
      [] OTHER -> m

\* WritePRG in which a write with bit 7 set leaves the write count as it is
Mapper1WritePRGKeepsCount(m, addr, value) ==
    IF addr < 32768 THEN m
    ELSE IF value >= 128
    THEN [m EXCEPT !.shiftRegister = 16, !.prgMode = 3]
    ELSE LET sr == (m.shiftRegister \div 2) + (value % 2) * 16
             k == (m.shiftCount + 1) % 256
         IN IF k = 5
            THEN [Mapper1writeRegister(m, addr, sr) EXCEPT !.shiftRegister = 16,
                                                           !.shiftCount = 0]
            ELSE [m EXCEPT !.shiftRegister = sr, !.shiftCount = k]

\* WritePRG, $8000-$FFFF (a write to PRG-RAM, $6000-$7FFF, leaves the registers alone)
Mapper1WritePRG(m, addr, value) ==
    IF addr < 32768 THEN m
    ELSE IF value >= 128
    THEN [m EXCEPT !.shiftRegister = 16, !.shiftCount = 0, !.prgMode = 3]
    ELSE LET sr == (m.shiftRegister \div 2) + (value % 2) * 16
             k == (m.shiftCount + 1) % 256
         IN IF k = 5
            THEN [Mapper1writeRegister(m, addr, sr) EXCEPT !.shiftRegister = 16,
                                                           !.shiftCount = 0]
            ELSE [m EXCEPT !.shiftRegister = sr, !.shiftCount = k]

Mapper1GetMirroring(m) ==
    CASE m.mirroring = 0 -> 2
      [] m.mirroring = 1 -> 3
      [] m.mirroring = 2 -> MirrorVertical
      [] m.mirroring = 3 -> MirrorHorizontal
      [] OTHER -> MirrorHorizontal

-----------------------------------------------------------------------------
(* The mappers' memories.  c is the cartridge, r the registers of its MMC1 *)
(* or MMC3; the PRG-ROM and CHR-ROM are the slices of the loaded buffer.   *)

\* a & b on bytes
BitAnd(a, b) ==
    LET f(n) == Bit(a, n) * Bit(b, n) * (2 ^ n)
    IN f(0) + f(1) + f(2) + f(3) + f(4) + f(5) + f(6) + f(7)

\* prgROM[offset] behind the test int(offset) < len(m.prgROM)
PRGAt(c, offset) == IF offset < c.prgLen THEN DataByte(c.data, c.prgOff + offset) ELSE 0

\* chrMem[offset] (chrROM, chrRAM) behind the test int(offset) < len(...)
CHRAt(c, offset) ==
    IF offset >= c.m.chrMemLen THEN 0
    ELSE IF c.m.chrIsRAM THEN MemRead(c.m.chrRAM, offset)
    ELSE DataByte(c.data, c.chrOff + offset)

\* Mapper0.ReadPRG; addr -= 0x8000 is a uint16 subtraction
Mapper0ReadPRG(c, addr) ==
    LET a == (addr + 32768) % 65536
    IN PRGAt(c, IF c.m.prgBanks = 1 THEN a % 16384 ELSE a)

Mapper2ReadPRG(c, addr) ==
    CASE addr >= 32768 /\ addr < 49152 -> PRGAt(c, c.m.prgBank * 16384 + (addr - 32768))
      [] addr >= 49152 -> PRGAt(c, ((c.m.prgBanks + 255) % 256) * 16384 + (addr - 49152))
      [] OTHER -> 0

Mapper3ReadPRG(c, addr) ==
    LET a == (addr + 32768) % 65536
    IN PRGAt(c, IF c.m.prgBanks = 1 THEN a % 16384 ELSE a)

Mapper7ReadPRG(c, addr) ==
    IF addr >= 32768 THEN PRGAt(c, c.m.prgBank * 32768 + (addr - 32768)) ELSE 0

Mapper1ReadPRG(c, r, addr) ==
    CASE addr >= 24576 /\ addr < 32768 ->
            IF r.prgRAMEnabled THEN MemRead(c.m.prgRAM, addr - 24576) ELSE 0
      [] addr >= 32768 /\ addr < 49152 ->
            LET bank == CASE r.prgMode \in {0, 1} -> (r.prgBank \div 2) * 2
                          [] r.prgMode = 2 -> 0
                          [] OTHER -> r.prgBank
            IN PRGAt(c, bank * 16384 + (addr - 32768))
      [] addr >= 49152 ->
            LET bank == CASE r.prgMode \in {0, 1} -> (r.prgBank \div 2) * 2 + 1
                          [] r.prgMode = 2 -> r.prgBank
                          [] OTHER -> (c.m.prgBanks + 255) % 256
            IN PRGAt(c, bank * 16384 + (addr - 49152))
      [] OTHER -> 0

\* a ReadPRG that takes no account of the PRG mode bit
Mapper4ReadPRGWithoutMode(c, r, addr) ==
    CASE addr >= 24576 /\ addr < 32768 ->
            IF r.prgRAMEnabled THEN MemRead(c.m.prgRAM, addr - 24576) ELSE 0
      [] addr >= 32768 /\ addr < 40960 ->
            PRGAt(c, r.registers[7] * 8192 + (addr - 32768))
      [] addr >= 40960 /\ addr < 49152 -> PRGAt(c, r.registers[8] * 8192 + (addr - 40960))
      [] addr >= 49152 /\ addr < 57344 ->
            PRGAt(c, ((c.m.prgBanks + 254) % 256) * 8192 + (addr - 49152))
      [] addr >= 57344 -> PRGAt(c, ((c.m.prgBanks + 255) % 256) * 8192 + (addr - 57344))
      [] OTHER -> 0

Mapper4ReadPRG(c, r, addr) ==
    CASE addr >= 24576 /\ addr < 32768 ->
            IF r.prgRAMEnabled THEN MemRead(c.m.prgRAM, addr - 24576) ELSE 0
      [] addr >= 32768 /\ addr < 40960 ->
            PRGAt(c, (IF r.prgMode = 0 THEN r.registers[7] ELSE (c.m.prgBanks + 254) % 256)
                         * 8192 + (addr - 32768))
      [] addr >= 40960 /\ addr < 49152 -> PRGAt(c, r.registers[8] * 8192 + (addr - 40960))
      [] addr >= 49152 /\ addr < 57344 ->
            PRGAt(c, (IF r.prgMode = 0 THEN (c.m.prgBanks + 254) % 256 ELSE r.registers[7])
                         * 8192 + (addr - 49152))
      [] addr >= 57344 -> PRGAt(c, ((c.m.prgBanks + 255) % 256) * 8192 + (addr - 57344))
      [] OTHER -> 0

\* Mapper.ReadPRG of the cartridge's mapper
MapperReadPRG(s, addr) ==
    CASE s.cart.mapperID = 0 -> Mapper0ReadPRG(s.cart, addr)
      [] s.cart.mapperID = 1 -> Mapper1ReadPRG(s.cart, s.mmc1, addr)
      [] s.cart.mapperID = 2 -> Mapper2ReadPRG(s.cart, addr)
      [] s.cart.mapperID = 3 -> Mapper3ReadPRG(s.cart, addr)
      [] s.cart.mapperID = 4 -> Mapper4ReadPRG(s.cart, s.m4, addr)
      [] OTHER -> Mapper7ReadPRG(s.cart, addr)

\* the test with MMC3's write-protect bit taken the wrong way round
PRGRAMWritableProtectInverted(s) ==
    CASE s.cart.mapperID = 1 -> s.mmc1.prgRAMEnabled
      [] s.cart.mapperID = 4 -> s.m4.prgRAMEnabled /\ s.m4.prgRAMWriteProtect
      [] OTHER -> FALSE

\* the test under which WritePRG stores a byte written to $6000-$7FFF
PRGRAMWritable(s) ==
    CASE s.cart.mapperID = 1 -> s.mmc1.prgRAMEnabled
      [] s.cart.mapperID = 4 -> s.m4.prgRAMEnabled /\ ~s.m4.prgRAMWriteProtect
      [] OTHER -> FALSE

\* Mapper.WritePRG of the cartridge's mapper: PRG-RAM of MMC1 and MMC3 at
\* $6000-$7FFF, registers from $8000 on
MapperWritePRG(s, addr, value) ==
    LET ram == addr >= 24576 /\ addr < 32768
        stored == [s EXCEPT !.cart.m.prgRAM = MemWrite(s.cart.m.prgRAM, addr - 24576, value)]
    IN CASE s.cart.mapperID = 0 -> s
         [] s.cart.mapperID = 1 ->
                IF ram THEN (IF PRGRAMWritable(s) THEN stored ELSE s)
                ELSE [s EXCEPT !.mmc1 = Mapper1WritePRG(s.mmc1, addr, value)]
         [] s.cart.mapperID = 2 ->
                IF addr >= 32768
                THEN [s EXCEPT !.cart.m.prgBank = BitAnd(value, (s.cart.m.prgBanks + 255) % 256)]
                ELSE s
         [] s.cart.mapperID = 3 ->
                IF addr >= 32768 /\ s.cart.m.chrBanks > 0
                THEN [s EXCEPT !.cart.m.chrBank = BitAnd(value, s.cart.m.chrBanks - 1)]
                ELSE s
         [] s.cart.mapperID = 4 ->
                IF ram THEN (IF PRGRAMWritable(s) THEN stored ELSE s)
                ELSE [s EXCEPT !.m4 = Mapper4WritePRG(s.m4, addr, value)]
         [] OTHER ->
                IF addr >= 32768
                THEN [s EXCEPT !.cart.m.prgBank =
                                  IF s.cart.m.prgBanks > 0
                                  THEN BitAnd(value % 8, s.cart.m.prgBanks - 1)
                                  ELSE value % 8,
                               !.cart.m.mirroring = IF Bit(value, 4) = 1 THEN MirrorSingleHigh
                                                    ELSE MirrorSingleLow]
                ELSE s

\* the offset into chrMem Mapper1.ReadCHR and Mapper1.WriteCHR compute
Mapper1CHROffset(r, addr) ==
    IF r.chrMode = 0
    THEN ((r.chrBank0 \div 2) * 2 + (IF addr >= 4096 THEN 1 ELSE 0)) * 4096 + (addr % 4096)
    ELSE IF addr < 4096 THEN r.chrBank0 * 4096 + addr
    ELSE r.chrBank1 * 4096 + (addr - 4096)

\* the offset into chrMem Mapper4.ReadCHR and Mapper4.WriteCHR compute
Mapper4CHROffset(r, addr) ==
    LET two(i) == (r.registers[i + 1] \div 2) * 2
        one(i) == r.registers[i + 1]
    IN IF r.chrMode = 0
       THEN CASE addr < 2048 -> two(0) * 1024 + addr
              [] addr >= 2048 /\ addr < 4096 -> two(1) * 1024 + (addr - 2048)
              [] addr >= 4096 /\ addr < 5120 -> one(2) * 1024 + (addr - 4096)
              [] addr >= 5120 /\ addr < 6144 -> one(3) * 1024 + (addr - 5120)
              [] addr >= 6144 /\ addr < 7168 -> one(4) * 1024 + (addr - 6144)
              [] OTHER -> one(5) * 1024 + (addr - 7168)
       ELSE CASE addr < 1024 -> one(2) * 1024 + addr
              [] addr >= 1024 /\ addr < 2048 -> one(3) * 1024 + (addr - 1024)
              [] addr >= 2048 /\ addr < 3072 -> one(4) * 1024 + (addr - 2048)
              [] addr >= 3072 /\ addr < 4096 -> one(5) * 1024 + (addr - 3072)
              [] addr >= 4096 /\ addr < 6144 -> two(0) * 1024 + (addr - 4096)
              [] OTHER -> two(1) * 1024 + (addr - 6144)

\* the offset into the CHR memory the cartridge's mapper gives a PPU address
CHROffset(s, addr) ==
    CASE s.cart.mapperID = 1 -> Mapper1CHROffset(s.mmc1, addr)
      [] s.cart.mapperID = 3 -> s.cart.m.chrBank * 8192 + addr
      [] s.cart.mapperID = 4 -> Mapper4CHROffset(s.m4, addr)
      [] OTHER -> addr

\* Mapper.ReadCHR of the cartridge's mapper
MapperReadCHR(s, addr) == CHRAt(s.cart, CHROffset(s, addr))

\* Mapper.WriteCHR of the cartridge's mapper: CHR-ROM is read-only, Mapper3 has
\* no CHR-RAM
MapperWriteCHR(s, addr, value) ==
    IF s.cart.m.chrIsRAM /\ CHROffset(s, addr) < s.cart.m.chrMemLen
    THEN [s EXCEPT !.cart.m.chrRAM = MemWrite(s.cart.m.chrRAM, CHROffset(s, addr), value)]
    ELSE s

\* Mapper.GetMirroring of the cartridge's mapper
MapperGetMirroring(s) ==
    CASE s.cart.mapperID = 1 -> Mapper1GetMirroring(s.mmc1)
      [] s.cart.mapperID = 4 -> s.m4.mirroring
      [] OTHER -> s.cart.m.mirroring

-----------------------------------------------------------------------------
(* PPU memory and the CPU's register ports (PPU.ppuRead, ppuWrite,         *)
(* WriteCPURegister, ReadCPURegister)                                      *)

mirrorNametableAddress(mode, addr) ==
    LET a == (addr - 8192) % 4096
        table == a \div 1024
        offset == a % 1024
    IN CASE mode = MirrorVertical -> a % 2048
         [] mode = MirrorHorizontal -> (table \div 2) * 1024 + offset
         [] mode = MirrorSingleLow -> offset
         [] mode = MirrorSingleHigh -> 1024 + offset
         [] mode = MirrorFourScreen -> a
         [] OTHER -> 0

\* the palette index without the mirrors of the backdrop entries
mirrorPaletteAddressFlat(addr) == (addr - 16128) % 32

mirrorPaletteAddress(addr) ==
    LET a == (addr - 16128) % 32
    IN IF a >= 16 /\ a % 4 = 0 THEN a - 16 ELSE a

\* the size of PPU.nametable, a [2048]uint8
nametableSize == 2048

\* an index past the end of PPU.nametable: the Go runtime panics with "index out of
\* range" and the access never completes
NametableFault(s, a) ==
    /\ a >= 8192 /\ a < 16128
    /\ mirrorNametableAddress(s.vram.mirroringMode, a) >= nametableSize

\* PPU.ppuRead: pattern tables from the cartridge's mapper, nametables, palette
ppuRead(s, addr) ==
    LET a == addr % 16384
    IN CASE a < 8192 -> MapperReadCHR(s, a)
         [] a >= 8192 /\ a < 16128 ->
                IF NametableFault(s, a) THEN 0
                ELSE MemRead(s.vmem.nametable,
                             mirrorNametableAddress(s.vram.mirroringMode, a))
         [] OTHER -> MemRead(s.vmem.paletteRAM, mirrorPaletteAddress(a))

\* PPU.ppuWrite
ppuWrite(s, addr, value) ==
    LET a == addr % 16384
    IN CASE a < 8192 -> MapperWriteCHR(s, a, value)
         [] a >= 8192 /\ a < 16128 ->
                IF NametableFault(s, a) THEN [s EXCEPT !.vmem.fault = TRUE]
                ELSE [s EXCEPT !.vmem.nametable =
                        MemWrite(s.vmem.nametable,
                                 mirrorNametableAddress(s.vram.mirroringMode, a), value)]
         [] OTHER ->
                [s EXCEPT !.vmem.paletteRAM =
                    MemWrite(s.vmem.paletteRAM, mirrorPaletteAddress(a), value)]

\* PPU.WriteCPURegister: $2000 PPUCTRL, $2001 PPUMASK, $2003 OAMADDR, $2004 OAMDATA,
\* $2005 PPUSCROLL, $2006 PPUADDR, $2007 PPUDATA
WriteCPURegister(s, addr, value) ==
    CASE addr = 8192 ->
            [s EXCEPT !.ppu.control = value,
                      !.vram.t = SetNametableY(SetNametableX(s.vram.t, ControlNametableX(value)),
                                               ControlNametableY(value))]
      [] addr = 8193 -> [s EXCEPT !.ppu.mask = value]
      [] addr = 8195 -> [s EXCEPT !.oamAddress = value]
      [] addr = 8196 -> [s EXCEPT !.oam = MemWrite(s.oam, s.oamAddress, value),
                                  !.oamAddress = (s.oamAddress + 1) % 256]
      [] addr = 8197 ->
            IF ~s.vram.writeLatch
            THEN [s EXCEPT !.vram.t = SetCoarseX(s.vram.t, value \div 8),
                           !.vram.fineX = value % 8,
                           !.vram.writeLatch = TRUE]
            ELSE [s EXCEPT !.vram.t = SetCoarseY(SetFineY(s.vram.t, value % 8), value \div 8),
                           !.vram.writeLatch = FALSE]
      [] addr = 8198 ->
            IF ~s.vram.writeLatch
            THEN [s EXCEPT !.vram.t = LoopySet((s.vram.t % 256) + (value % 64) * 256),
                           !.vram.writeLatch = TRUE]
            ELSE LET t1 == LoopySet((s.vram.t - (s.vram.t % 256)) + value)
                 IN [s EXCEPT !.vram.t = t1, !.vram.v = LoopySet(t1),
                              !.vram.writeLatch = FALSE]
      [] addr = 8199 ->
            LET w == ppuWrite(s, s.vram.v, value)
            IN [w EXCEPT !.vram.v = LoopySet((s.vram.v + IncrementMode(s.ppu.control)) % 65536)]
      [] OTHER -> s

\* the byte PPU.ReadCPURegister returns: $2002 PPUSTATUS, $2004 OAMDATA, $2007 PPUDATA
ReadCPURegister(s, addr) ==
    CASE addr = 8194 -> s.ppu.status
      [] addr = 8196 -> MemRead(s.oam, s.oamAddress)
      [] addr = 8199 -> IF s.vram.v >= 16128 THEN ppuRead(s, s.vram.v) ELSE s.vram.readBuffer
      [] OTHER -> 0

\* a read of $2002 that leaves the write latch as it is
AfterReadCPURegisterKeepsLatch(s, addr) ==
    CASE addr = 8194 -> [s EXCEPT !.ppu.status = SetVBlank(s.ppu.status, FALSE)]
      [] addr = 8199 ->
            IF NametableFault(s, s.vram.v % 16384) THEN [s EXCEPT !.vmem.fault = TRUE]
            ELSE
            [s EXCEPT !.vram.readBuffer = ppuRead(s, s.vram.v),
                      !.vram.v = LoopySet((s.vram.v + IncrementMode(s.ppu.control)) % 65536)]
      [] OTHER -> s

\* the state PPU.ReadCPURegister leaves
AfterReadCPURegister(s, addr) ==
    CASE addr = 8194 -> [s EXCEPT !.ppu.status = SetVBlank(s.ppu.status, FALSE),
                                  !.vram.writeLatch = FALSE]
      [] addr = 8199 ->
            IF NametableFault(s, s.vram.v % 16384) THEN [s EXCEPT !.vmem.fault = TRUE]
            ELSE
            [s EXCEPT !.vram.readBuffer = ppuRead(s, s.vram.v),
                      !.vram.v = LoopySet((s.vram.v + IncrementMode(s.ppu.control)) % 65536)]
      [] OTHER -> s

-----------------------------------------------------------------------------
(* The rendering side of PPU.Clock: the scroll updates of v and the sprite *)
(* evaluation.  The timing above reads neither, so the specifications      *)
(* about timing clock the PPU with Tick and those about v and the sprites  *)
(* with TickRender.                                                        *)

\* the updates of v in one PPU.Clock at the position of p
ClockScroll(p, r) ==
    IF p.scanline >= -1 /\ p.scanline < 240 /\ IsRenderingEnabled(p.mask)
    THEN LET fetch == (p.cycle >= 2 /\ p.cycle < 258) \/ (p.cycle >= 321 /\ p.cycle < 338)
             v1 == IF fetch /\ (p.cycle - 1) % 8 = 7 THEN IncrementX(r.v) ELSE r.v
             v2 == IF p.cycle = 256 THEN IncrementY(v1) ELSE v1
             v3 == IF p.cycle = 257 THEN TransferX(v2, r.t) ELSE v2
             v4 == IF p.scanline = -1 /\ p.cycle >= 280 /\ p.cycle < 305
                   THEN TransferY(v3, r.t) ELSE v3
         IN [r EXCEPT !.v = v4]
    ELSE r

\* the sprite evaluation loop without the test for eight sprites found
EvalSpriteNoLimit(o, scanline, height, i, acc) ==
    LET spriteY == MemRead(o, i * 4)
        diff == ((scanline % 65536) - spriteY) % 65536
    IN IF acc.stop \/ diff >= height THEN acc
       ELSE [acc EXCEPT !.spriteCount = (acc.spriteCount + 1) % 256,
                        !.sprite0Present = acc.sprite0Present \/ i = 0]

\* one iteration of the loop of spriteEvaluation, for sprite i
EvalSprite(o, scanline, height, i, acc) ==
    LET spriteY == MemRead(o, i * 4)
        diff == ((scanline % 65536) - spriteY) % 65536
    IN IF acc.stop \/ diff >= height THEN acc
       ELSE IF acc.spriteCount >= 8
            THEN [acc EXCEPT !.overflow = TRUE, !.stop = TRUE]
            ELSE [acc EXCEPT !.spriteCount = acc.spriteCount + 1,
                             !.sprite0Present = acc.sprite0Present \/ i = 0]

RECURSIVE EvalSprites(_, _, _, _, _)
EvalSprites(o, scanline, height, i, acc) ==
    IF acc.stop \/ i >= 64 THEN acc
    ELSE EvalSprites(o, scanline, height, i + 1, EvalSprite(o, scanline, height, i, acc))

\* a sprite evaluation that scans OAM whether or not rendering is enabled
spriteEvaluationIgnoringMask(s) ==
    LET clear == [spriteCount |-> 0, sprite0Present |-> FALSE, overflow |-> FALSE,
                  stop |-> FALSE]
        height == IF SpriteSize(s.ppu.control) # 0 THEN 16 ELSE 8
        acc == EvalSprites(s.oam, s.ppu.scanline, height, 0, clear)
    IN [s EXCEPT !.spr = [spriteCount |-> acc.spriteCount,
                          sprite0Present |-> acc.sprite0Present],
                 !.ppu.status = IF acc.overflow THEN SetSpriteOverflow(s.ppu.status, TRUE)
                                ELSE s.ppu.status]

\* PPU.spriteEvaluation
spriteEvaluation(s) ==
    LET clear == [spriteCount |-> 0, sprite0Present |-> FALSE, overflow |-> FALSE,
                  stop |-> FALSE]
        height == IF SpriteSize(s.ppu.control) # 0 THEN 16 ELSE 8
        acc == IF IsRenderingEnabled(s.ppu.mask)
               THEN EvalSprites(s.oam, s.ppu.scanline, height, 0, clear)
               ELSE clear
    IN [s EXCEPT !.spr = [spriteCount |-> acc.spriteCount,
                          sprite0Present |-> acc.sprite0Present],
                 !.ppu.status = IF acc.overflow THEN SetSpriteOverflow(s.ppu.status, TRUE)
                                ELSE s.ppu.status]

\* the rendering side of one PPU.Clock
ClockRender(s) ==
    LET r == [s EXCEPT !.vram = ClockScroll(s.ppu, s.vram)]
    IN IF s.ppu.scanline >= -1 /\ s.ppu.scanline < 240 /\ s.ppu.cycle = 257
       THEN spriteEvaluation(r)
       ELSE r

\* one PPU.Clock call with its rendering side, observed
TickRender(s) == Tick(ClockRender(s))

-----------------------------------------------------------------------------
(* The pixel side of PPU.Clock: renderPixel, the background fetches and    *)
(* shifters, sprite fetching and the frame buffer                          *)

RenderBackgroundLeft(mask) == Bit(mask, 1) # 0

RenderSpritesLeft(mask) == Bit(mask, 2) # 0

\* PPUControl.BackgroundPatternTable: 0x0000 or 0x1000
BackgroundPatternTable(control) == IF Bit(control, 4) # 0 THEN 4096 ELSE 0

\* PPUControl.SpritePatternTable: 0x0000 or 0x1000
SpritePatternTable(control) == IF Bit(control, 3) # 0 THEN 4096 ELSE 0

\* the run of fb that holds byte i
FBRun(fb, i) ==
    CHOOSE k \in 1..Len(fb) : i < fb[k].end /\ (k = 1 \/ fb[k - 1].end <= i)

\* frameBuffer[i]
FBRead(fb, i) == fb[FBRun(fb, i)].value

\* frameBuffer[i] = c: the run that holds byte i is split around it, and the new
\* byte is joined with a neighbouring run of the same byte
FBWrite(fb, i, c) ==
    LET k == FBRun(fb, i)
        old == fb[k].value
        start == IF k = 1 THEN 0 ELSE fb[k - 1].end
        joinLeft == i = start /\ k > 1 /\ fb[k - 1].value = c
        joinRight == i + 1 = fb[k].end /\ k < Len(fb) /\ fb[k + 1].value = c
    IN IF old = c THEN fb
       ELSE SubSeq(fb, 1, IF joinLeft THEN k - 2 ELSE k - 1)
            \o (IF i > start THEN <<[value |-> old, end |-> i]>> ELSE <<>>)
            \o (IF joinRight THEN <<>> ELSE <<[value |-> c, end |-> i + 1]>>)
            \o (IF i + 1 < fb[k].end THEN <<[value |-> old, end |-> fb[k].end]>> ELSE <<>>)
            \o SubSeq(fb, k + 1, Len(fb))

\* PPU.loadBackgroundShifters
loadBackgroundShifters(x) ==
    [x EXCEPT !.bgShifterPatternLo = (x.bgShifterPatternLo \div 256) * 256 + x.bgNextTileLSB,
              !.bgShifterPatternHi = (x.bgShifterPatternHi \div 256) * 256 + x.bgNextTileMSB,
              !.bgShifterAttribLo = (x.bgShifterAttribLo \div 256) * 256
                                    + (IF Bit(x.bgNextTileAttrib, 0) # 0 THEN 255 ELSE 0),
              !.bgShifterAttribHi = (x.bgShifterAttribHi \div 256) * 256
                                    + (IF Bit(x.bgNextTileAttrib, 1) # 0 THEN 255 ELSE 0)]

\* PPU.updateShifters
updateShifters(mask, x) ==
    IF RenderBackground(mask)
    THEN [x EXCEPT !.bgShifterPatternLo = (x.bgShifterPatternLo * 2) % 65536,
                   !.bgShifterPatternHi = (x.bgShifterPatternHi * 2) % 65536,
                   !.bgShifterAttribLo = (x.bgShifterAttribLo * 2) % 65536,
                   !.bgShifterAttribHi = (x.bgShifterAttribHi * 2) % 65536]
    ELSE x

\* the address of the nametable fetch, 0x2000 | (v & 0x0FFF)
TileAddress(v) == 8192 + (v % 4096)

\* the address of the attribute fetch
AttributeAddress(v) ==
    9152 + NametableY(v) * 2048 + NametableX(v) * 1024 + (CoarseY(v) \div 4) * 8
         + (CoarseX(v) \div 4)

\* the two attribute bits of the tile's quadrant
AttributeBits(v, byte) ==
    LET a == IF Bit(CoarseY(v), 1) # 0 THEN byte \div 16 ELSE byte
        b == IF Bit(CoarseX(v), 1) # 0 THEN a \div 4 ELSE a
    IN b % 4

\* the address of the low pattern byte of the background tile
PatternAddress(control, v, tileID) ==
    BackgroundPatternTable(control) + tileID * 16 + FineY(v)

\* the 8-cycle fetching pattern of PPU.Clock, cases 0, 2, 4 and 6
ClockFetch(s, x) ==
    LET v == s.vram.v
        phase == (s.ppu.cycle - 1) % 8
    IN CASE phase = 0 ->
              [loadBackgroundShifters(x) EXCEPT !.bgNextTileID = ppuRead(s, TileAddress(v))]
         [] phase = 2 ->
              [x EXCEPT !.bgNextTileAttrib = AttributeBits(v, ppuRead(s, AttributeAddress(v)))]
         [] phase = 4 ->
              [x EXCEPT !.bgNextTileLSB =
                            ppuRead(s, PatternAddress(s.ppu.control, v, x.bgNextTileID))]
         [] phase = 6 ->
              [x EXCEPT !.bgNextTileMSB =
                            ppuRead(s, PatternAddress(s.ppu.control, v, x.bgNextTileID) + 8)]
         [] OTHER -> x


\* the copy loop of PPU.spriteEvaluation: acc.bytes is secondaryOAM, acc.n the
\* number of sprites copied
RECURSIVE CopySprites(_, _, _, _, _)
CopySprites(o, scanline, height, i, acc) ==
    LET diff == ((scanline % 65536) - MemRead(o, i * 4)) % 65536
    IN IF i = 64 THEN acc.bytes
       ELSE IF diff >= height THEN CopySprites(o, scanline, height, i + 1, acc)
       ELSE IF acc.n >= 8 THEN acc.bytes
       ELSE CopySprites(o, scanline, height, i + 1,
                [n |-> acc.n + 1,
                 bytes |-> [k \in 0..31 |->
                              IF k \div 4 = acc.n THEN MemRead(o, i * 4 + (k % 4))
                              ELSE acc.bytes[k]]])

\* secondaryOAM as PPU.spriteEvaluation leaves it
SecondaryOAM(s) ==
    LET clear == [n |-> 0, bytes |-> [k \in 0..31 |-> 255]]
        height == IF SpriteSize(s.ppu.control) # 0 THEN 16 ELSE 8
    IN IF IsRenderingEnabled(s.ppu.mask)
       THEN CopySprites(s.oam, s.ppu.scanline, height, 0, clear)
       ELSE clear.bytes

\* reverseByte
reverseByte(b) ==
    Bit(b, 0) * 128 + Bit(b, 1) * 64 + Bit(b, 2) * 32 + Bit(b, 3) * 16
        + Bit(b, 4) * 8 + Bit(b, 5) * 4 + Bit(b, 6) * 2 + Bit(b, 7)

\* the pattern address PPU.spriteFetching computes for sprite i of secondary OAM;
\* SpritePatternTable() << 12 is 0 in 16 bits
SpritePatternAddress(s, i) ==
    LET height == IF SpriteSize(s.ppu.control) # 0 THEN 16 ELSE 8
        spriteY == s.pix.secondaryOAM[i * 4]
        tileIndex == s.pix.secondaryOAM[i * 4 + 1]
        attributes == s.pix.secondaryOAM[i * 4 + 2]
        row == ((s.ppu.scanline % 65536) - spriteY) % 65536
        spriteRow == IF Bit(attributes, 7) # 0 THEN (height - 1 - row) % 65536 ELSE row
    IN IF height = 16
       THEN IF spriteRow < 8
            THEN (tileIndex % 2) * 4096 + (tileIndex - (tileIndex % 2)) * 16
                     + (spriteRow % 8)
            ELSE (tileIndex % 2) * 4096 + (tileIndex - (tileIndex % 2) + 1) * 16
                     + ((spriteRow - 8) % 8)
       ELSE ((SpritePatternTable(s.ppu.control) * 4096) % 65536) + tileIndex * 16
                + (spriteRow % 8)

\* PPU.spriteFetching
spriteFetching(s) ==
    LET x == s.pix
        fetched(i) == i < s.spr.spriteCount
        flip(i, b) == IF Bit(x.secondaryOAM[i * 4 + 2], 6) # 0 THEN reverseByte(b) ELSE b
    IN [x EXCEPT
          !.spriteAttributes = [i \in 0..7 |-> IF fetched(i) THEN x.secondaryOAM[i * 4 + 2]
                                               ELSE x.spriteAttributes[i]],
          !.spritePositions = [i \in 0..7 |-> IF fetched(i) THEN x.secondaryOAM[i * 4 + 3]
                                              ELSE x.spritePositions[i]],
          !.spriteShifterPatternLo =
              [i \in 0..7 |-> IF fetched(i)
                              THEN flip(i, ppuRead(s, SpritePatternAddress(s, i)))
                              ELSE x.spriteShifterPatternLo[i]],
          !.spriteShifterPatternHi =
              [i \in 0..7 |-> IF fetched(i)
                              THEN flip(i, ppuRead(s, (SpritePatternAddress(s, i) + 8) % 65536))
                              ELSE x.spriteShifterPatternHi[i]]]

NoSpritePixel == [pixel |-> 0, palette |-> 0, priority |-> FALSE, isSprite0 |-> FALSE]

\* the loop of PPU.renderSprites from sprite i on
RECURSIVE SpritePixelFrom(_, _, _)
SpritePixelFrom(s, x, i) ==
    LET offset == x - s.pix.spritePositions[i]
        shift == 7 - offset
        pixelValue == Bit(s.pix.spriteShifterPatternHi[i], shift) * 2
                          + Bit(s.pix.spriteShifterPatternLo[i], shift)
    IN IF i >= s.spr.spriteCount THEN NoSpritePixel
       ELSE IF offset >= 0 /\ offset < 8 /\ pixelValue # 0
            THEN [pixel |-> pixelValue,
                  palette |-> s.pix.spriteAttributes[i] % 4,
                  priority |-> Bit(s.pix.spriteAttributes[i], 5) = 0,
                  isSprite0 |-> i = 0 /\ s.spr.sprite0Present]
            ELSE SpritePixelFrom(s, x, i + 1)

\* PPU.renderSprites
renderSprites(s, x) ==
    IF ~RenderSprites(s.ppu.mask) THEN NoSpritePixel
    ELSE IF x < 8 /\ ~RenderSpritesLeft(s.ppu.mask) THEN NoSpritePixel
    ELSE SpritePixelFrom(s, x, 0)

\* the background pixel and palette renderPixel takes from the shifters
BackgroundPixel(s) ==
    LET b == 15 - s.vram.fineX
    IN IF RenderBackground(s.ppu.mask)
       THEN [pixel |-> Bit(s.pix.bgShifterPatternHi, b) * 2 + Bit(s.pix.bgShifterPatternLo, b),
             palette |-> Bit(s.pix.bgShifterAttribHi, b) * 2 + Bit(s.pix.bgShifterAttribLo, b)]
       ELSE [pixel |-> 0, palette |-> 0]

\* a composition that shows the sprite wherever both pixels are opaque
CompositeSpriteInFront(bg, sp) ==
    CASE bg.pixel = 0 /\ sp.pixel = 0 -> [pixel |-> 0, palette |-> 0]
      [] bg.pixel = 0 /\ sp.pixel > 0 -> [pixel |-> sp.pixel, palette |-> sp.palette + 4]
      [] bg.pixel > 0 /\ sp.pixel = 0 -> bg
      [] OTHER -> [pixel |-> sp.pixel, palette |-> sp.palette + 4]

\* the pixel and palette renderPixel composes from background bg and sprite sp
Composite(bg, sp) ==
    CASE bg.pixel = 0 /\ sp.pixel = 0 -> [pixel |-> 0, palette |-> 0]
      [] bg.pixel = 0 /\ sp.pixel > 0 -> [pixel |-> sp.pixel, palette |-> sp.palette + 4]
      [] bg.pixel > 0 /\ sp.pixel = 0 -> bg
      [] OTHER -> IF sp.priority THEN [pixel |-> sp.pixel, palette |-> sp.palette + 4]
                  ELSE bg

\* the sprite-0 hit test of renderPixel
Sprite0Hit(s, x, bg, sp) ==
    /\ bg.pixel > 0 /\ sp.pixel > 0
    /\ sp.isSprite0 /\ x < 255 /\ x >= 1
    /\ RenderBackground(s.ppu.mask) /\ RenderSprites(s.ppu.mask)
    /\ (RenderBackgroundLeft(s.ppu.mask) \/ x >= 8)

\* the palette byte as it is in palette RAM
ColorIndexUnmasked(s, address) == ppuRead(s, 16128 + address)

\* the byte renderPixel stores: p.ppuRead(0x3F00 + address) & 0x3F
ColorIndex(s, address) == ppuRead(s, 16128 + address) % 64

\* PPU.renderPixel
renderPixel(s) ==
    LET x == s.ppu.cycle - 1
        y == s.ppu.scanline % 65536
        bg == BackgroundPixel(s)
        sp == renderSprites(s, x)
        final == Composite(bg, sp)
        address == final.palette * 4 + (final.pixel % 4)
    IN IF x >= ScreenWidth \/ y >= ScreenHeight THEN s
       ELSE IF ~IsRenderingEnabled(s.ppu.mask)
            THEN [s EXCEPT !.pix.frameBuffer =
                              FBWrite(s.pix.frameBuffer, y * ScreenWidth + x,
                                      ColorIndex(s, 0))]
            ELSE [s EXCEPT !.pix.frameBuffer =
                              FBWrite(s.pix.frameBuffer, y * ScreenWidth + x,
                                      ColorIndex(s, address)),
                           !.ppu.status = IF Sprite0Hit(s, x, bg, sp)
                                          THEN SetSprite0Hit(s.ppu.status, TRUE)
                                          ELSE s.ppu.status]

\* a pixel test that leaves out scanline 0
VisibleDotAfterLineZero(p) ==
    p.scanline > 0 /\ p.scanline < 240 /\ p.cycle >= 1 /\ p.cycle <= 256

\* the test of PPU.Clock for calling renderPixel
VisibleDot(p) == p.scanline >= 0 /\ p.scanline < 240 /\ p.cycle >= 1 /\ p.cycle <= 256

\* F applied to the value of x
Call(F(_), x) == CHOOSE y \in {F(v) : v \in {x}} : TRUE

\* the shifters and fetches of scanlines -1..239 in one PPU.Clock, all with v as it
\* is when Clock is entered
ClockBackground(r) ==
    LET p == r.ppu
        fetch == (p.cycle >= 2 /\ p.cycle < 258) \/ (p.cycle >= 321 /\ p.cycle < 338)
        x1 == IF fetch THEN ClockFetch(r, updateShifters(p.mask, r.pix)) ELSE r.pix
        x2 == IF p.cycle = 257
              THEN [loadBackgroundShifters(x1) EXCEPT !.secondaryOAM = SecondaryOAM(r)]
              ELSE x1
        x3 == IF p.cycle = 320 THEN spriteFetching([r EXCEPT !.pix = x2]) ELSE x2
        x4 == IF p.cycle = 338 \/ p.cycle = 340
              THEN [x3 EXCEPT !.bgNextTileID = ppuRead(r, TileAddress(r.vram.v))]
              ELSE x3
    IN IF p.scanline >= -1 /\ p.scanline < 240 THEN [r EXCEPT !.pix = x4] ELSE r

\* the pixel side of one PPU.Clock: the pixel, then the shifters and fetches
ClockPixel(s) ==
    Call(ClockBackground, IF VisibleDot(s.ppu) THEN renderPixel(s) ELSE s)

\* one whole PPU.Clock call, observed
TickPixel(s) == Call(Tick, Call(ClockRender, ClockPixel(s)))

-----------------------------------------------------------------------------
(* Controller: the pressed buttons as a set of button numbers, A = 0 ... Right = 7 *)

SetButton(c, button, pressed) ==
    IF button < 8
    THEN [c EXCEPT !.buttons = IF pressed THEN c.buttons \cup {button}
                                 ELSE c.buttons \ {button}]
    ELSE c

\* a write that restarts the read sequence whenever it leaves strobe clear
ControllerWriteRestartsOnZero(c, value) ==
    LET strobe == (value % 2) # 0
    IN IF ~strobe
       THEN [c EXCEPT !.strobe = strobe, !.index = 0]
       ELSE [c EXCEPT !.strobe = strobe]

ControllerWrite(c, value) ==
    LET strobe == (value % 2) # 0
    IN IF c.strobe /\ ~strobe
       THEN [c EXCEPT !.strobe = strobe, !.index = 0]
       ELSE [c EXCEPT !.strobe = strobe]

\* the byte Controller.Read returns
ControllerRead(c) ==
    IF c.strobe THEN (IF 0 \in c.buttons THEN 1 ELSE 0)
    ELSE IF c.index < 8 THEN (IF c.index \in c.buttons THEN 1 ELSE 0)
    ELSE 1

\* a read whose index starts again at button A after 24 reads
AfterControllerReadWrapsToA(c) ==
    IF c.strobe THEN c
    ELSE [c EXCEPT !.index = IF c.index + 1 > 23 THEN 0 ELSE c.index + 1]

\* the state Controller.Read leaves
AfterControllerRead(c) ==
    IF c.strobe THEN c
    ELSE [c EXCEPT !.index = IF c.index + 1 > 23 THEN 8 ELSE c.index + 1]

-----------------------------------------------------------------------------
(* NESBus *)

\* the byte NESBus.Read returns: CPU RAM, controller 1, and 0 for what is unmapped
BusRead(s, addr) ==
    CASE addr < 8192 -> MemRead(s.cpuRAM, addr % 2048)
      [] addr >= 8192 /\ addr < 16384 -> ReadCPURegister(s, 8192 + (addr % 8))
      [] addr = 16406 -> ControllerRead(s.pad)
      [] addr >= 16416 -> MapperReadPRG(s, addr)
      [] OTHER -> 0

\* the state NESBus.Read leaves: a read of $4016 shifts controller 1, a read of a PPU
\* register has that register's side effects (controller 2, $4017, is not modelled)
AfterBusRead(s, addr) ==
    CASE addr = 16406 -> [s EXCEPT !.pad = AfterControllerRead(s.pad)]
      [] addr >= 8192 /\ addr < 16384 -> AfterReadCPURegister(s, 8192 + (addr % 8))
      [] OTHER -> s

\* NESBus.Write
BusWrite(s, addr, data) ==
    CASE addr < 8192 -> [s EXCEPT !.cpuRAM = MemWrite(s.cpuRAM, addr % 2048, data)]
      [] addr >= 8192 /\ addr < 16384 -> WriteCPURegister(s, 8192 + (addr % 8), data)
      [] addr = 16404 ->
            [s EXCEPT !.dma.page = data, !.dma.addr = 0, !.dma.transfer = TRUE,
                      !.obs.dmaStarted = s.obs.dmaStarted + 1, !.obs.dmaClocks = 0,
                      !.obs.dmaDone = FALSE, !.obs.dmaFirstDummy = FALSE,
                      !.obs.dmaFrom = s.oamAddress]
      [] addr = 16406 -> [s EXCEPT !.pad = ControllerWrite(s.pad, data)]
      [] addr >= 16416 -> MapperWritePRG(s, addr, data)
      [] OTHER -> s

\* the DMA part of NESBus.Clock
ClockDMA(s) ==
    IF ~s.dma.transfer THEN s
    ELSE LET o == [s.obs EXCEPT !.dmaClocks = s.obs.dmaClocks + 1,
                                !.dmaFirstDummy = IF s.obs.dmaClocks = 0
                                                  THEN s.dma.dummy
                                                  ELSE s.obs.dmaFirstDummy]
             t == [s EXCEPT !.obs = o]
         IN IF s.dma.dummy
            THEN [t EXCEPT !.dma.dummy = FALSE]
            ELSE LET u == IF s.dma.addr % 2 = 0
                          THEN [t EXCEPT !.dma.data = BusRead(s, s.dma.page * 256 + s.dma.addr)]
                          ELSE WriteCPURegister(t, 8196, s.dma.data)
                     a1 == (s.dma.addr + 1) % 256
                 IN IF a1 = 0
                    THEN [u EXCEPT !.dma.addr = a1, !.dma.transfer = FALSE,
                                   !.dma.dummy = TRUE, !.obs.dmaDone = TRUE]
                    ELSE [u EXCEPT !.dma.addr = a1]

\* a bus clock that holds the PPU while a DMA is transferring
BusClockStallsPPU(s) == IF s.dma.transfer THEN ClockDMA(s) ELSE ClockDMA(Tick(Tick(Tick(s))))

\* NESBus.Clock: three PPU ticks, then the DMA
BusClock(s) == ClockDMA(Tick(Tick(Tick(s))))

-----------------------------------------------------------------------------
(* NES *)

\* what the CPU core does on the bus during one cpu.Step()
NoOp == [kind |-> "none", addr |-> 0, data |-> 0]

WriteOp(a, d) == [kind |-> "write", addr |-> a, data |-> d]

CPUStep(s, op) == IF op.kind = "write" THEN BusWrite(s, op.addr, op.data) ELSE s

\* the interrupt checks of NES.Step, after the bus clock
StepInterrupts(s) ==
    IF GetNMI(s.ppu)
    THEN [s EXCEPT !.ppu = AfterGetNMI(s.ppu), !.cpu.NMIPending = TRUE,
                   !.obs.nmiRaised = s.obs.nmiRaised + 1]
    ELSE s

\* NES.Step
NESStep(s, op) ==
    LET b == BusClock(CPUStep(s, op))
        r == StepInterrupts(b)
    IN [r EXCEPT !.obs.stepIRQ = IRQPending(b.m4), !.obs.lastOp = "step",
                 !.obs.steps = IF r.obs.watch = "sync" THEN r.obs.steps + 1 ELSE r.obs.steps]

\* NESBus.Clock with the pixel side of the three PPU ticks
BusClockPixel(s) == Call(ClockDMA, Call(TickPixel, Call(TickPixel, TickPixel(s))))

\* NES.Step with the pixel side of the PPU
NESStepPixel(s, op) ==
    LET StepEnd(b) == [StepInterrupts(b) EXCEPT !.obs.stepIRQ = IRQPending(b.m4),
                                                !.obs.lastOp = "step"]
    IN Call(StepEnd, BusClockPixel(CPUStep(s, op)))

\* NES.Reset (the CPU core's own reset is outside the model)
NESReset(s) ==
    [s EXCEPT !.ppu = PPUReset(s.ppu), !.oamAddress = 0, !.vram = VRAMReset(s.vram),
              !.obs = Watching(s.obs.watch)]

-----------------------------------------------------------------------------
(* The PPU alone, clocked tick by tick by a test harness that programs     *)
(* PPUMASK before it starts clocking                                       *)

MaskValues == {0, 8, 16}

PPUTick ==
    /\ ppu.frame < MaxFrame
    /\ SetSys(Tick(Sys))
    /\ UNCHANGED pc

PPUWriteMask ==
    /\ ~obs.started
    /\ \E v \in MaskValues : SetSys(WriteCPURegister(Sys, 8193, v))
    /\ UNCHANGED pc

PPUDoReset ==
    /\ obs.started
    /\ SetSys(NESReset(Sys))
    /\ UNCHANGED pc

NextPPU == PPUTick \/ PPUWriteMask \/ PPUDoReset

SpecPPU == InitWatching("frames") /\ [][NextPPU]_vars

\* C1: after any number of PPU ticks the scanline is in -1..260 and the cycle in 0..340
ScanlineCycleRange == ppu.scanline \in -1..260 /\ ppu.cycle \in 0..340

\* C3: with rendering disabled a frame, from one frame-complete event to the next,
\* is 262 x 341 = 89,342 PPU ticks long
FrameLengthRenderingOff ==
    (~IsRenderingEnabled(ppu.mask) /\ obs.lastLen # 0)
        => obs.lastLen = ScanlinesPerFrame * CyclesPerScanline

\* C4: with rendering enabled the frame lengths alternate between 89,341 and 89,342
FrameLengthRenderingOn ==
    (IsRenderingEnabled(ppu.mask) /\ obs.lastLen # 0)
        => /\ obs.lastLen \in {ScanlinesPerFrame * CyclesPerScanline - 1,
                               ScanlinesPerFrame * CyclesPerScanline}
           /\ obs.prevLen # 0 => obs.prevLen # obs.lastLen

-----------------------------------------------------------------------------
(* NES.RunFrame, called by a host that may also call Step itself, under a  *)
(* program that switches rendering on and off                              *)

RunOps == {NoOp, WriteOp(8193, 0), WriteOp(8193, 8)}

RunFrameCall ==
    /\ pc = "idle"
    /\ ppu.frame < MaxFrame
    /\ ppu' = ClearFrameComplete(ppu)
    /\ pc' = "running"
    /\ obs' = [obs EXCEPT !.runFrames = 0, !.lastOp = "call"]
    /\ UNCHANGED <<oam, oamAddress, cpuRAM, dma, m4, cpu, rest>>

RunFrameStep ==
    /\ pc = "running"
    /\ ~ppu.frameComplete
    /\ \E op \in RunOps : SetSys(NESStep(Sys, op))
    /\ UNCHANGED pc

RunFrameReturn ==
    /\ pc = "running"
    /\ ppu.frameComplete
    /\ pc' = "idle"
    /\ obs' = [obs EXCEPT !.lastOp = "return"]
    /\ UNCHANGED <<ppu, oam, oamAddress, cpuRAM, dma, m4, cpu, rest>>

HostStep ==
    /\ pc = "idle"
    /\ ppu.frame < MaxFrame
    /\ \E op \in RunOps : SetSys(NESStep([Sys EXCEPT !.obs.runFrames = 0], op))
    /\ UNCHANGED pc

NextRun == RunFrameCall \/ RunFrameStep \/ RunFrameReturn \/ HostStep

SpecRun == Init /\ [][NextRun]_vars

\* C2: on return from RunFrame the frame counter is exactly one greater than at the call
RunFrameOneFrame ==
    (pc = "idle" /\ obs.lastOp = "return") => obs.runFrames = 1

\* the PPU is further on in q than in p: frame, scanline, cycle in lexicographic order
Later(p, q) ==
    \/ q.frame > p.frame
    \/ q.frame = p.frame /\ q.scanline > p.scanline
    \/ q.frame = p.frame /\ q.scanline = p.scanline /\ q.cycle > p.cycle

\* C5: RunFrame terminates under any switching of rendering: every step of the loop
\* moves the PPU on, a frame is at most 263 x 341 ticks long, and frame-complete is
\* observed, ending the loop, before a third frame has ended unobserved
RunFrameTerminates ==
    [][/\ (pc = "running" /\ pc' = "running") => Later(ppu, ppu')
       /\ pc' = "running" =>
            /\ ppu'.scanline \in -1..ScanlinesPerFrame - 1
            /\ ppu'.cycle \in 0..CyclesPerScanline - 1
            /\ obs'.runFrames <= 3
            /\ ~ppu'.frameComplete => obs'.runFrames <= 2]_vars

\* C5 witness: with rendering on, a call that missed one frame end (its flag was
\* cleared again within the same bus clock) has returned at the next one
RunFrameReturnedAfterMiss ==
    /\ pc = "idle" /\ obs.lastOp = "return" /\ obs.runFrames = 2
    /\ IsRenderingEnabled(ppu.mask)

-----------------------------------------------------------------------------
(* OAM DMA: a program fills a page of RAM, sets OAMADDR and writes $4014   *)

DMAPages == {0, 2, 10}

OAMStarts == {0, 4, 255}

\* the byte the program stores at offset i of the page, in fill k
PageByte(k, i) == IF k = 1 THEN (i + 1) % 256 ELSE (3 * i + 7) % 256

\* 256 bus writes to the RAM page (NESBus.Write, addr < $2000), on empty RAM
FillPage(s, page, k) ==
    [s EXCEPT !.cpuRAM =
        [a \in {x \in 0..2047 : /\ x \div 256 = page % 8
                                /\ PageByte(k, x % 256) # 0}
            |-> PageByte(k, a % 256)]]

DMAFillPage ==
    /\ cpuRAM = NewMem
    /\ obs.dmaStarted = 0
    /\ \E page \in {0, 2}, k \in {1, 2} : SetSys(FillPage(Sys, page, k))
    /\ UNCHANGED pc

\* STA $2003 then STA $4014
DMAStart ==
    /\ ~dma.transfer
    /\ obs.dmaStarted < MaxDMA
    /\ \E a \in OAMStarts, page \in DMAPages :
          SetSys(NESStep(NESStep(Sys, WriteOp(8195, a)), WriteOp(16404, page)))
    /\ UNCHANGED pc

DMAStep ==
    /\ dma.transfer
    /\ SetSys(NESStep(Sys, NoOp))
    /\ UNCHANGED pc

NextDMA == DMAFillPage \/ DMAStart \/ DMAStep

SpecDMA == Init /\ [][NextDMA]_vars

\* C6: when the DMA has finished, OAM[(a + i) mod 256] is the byte the bus returns
\* at (page << 8) | i, for every i in 0..255
DMACopiesPage ==
    obs.dmaDone =>
        \A i \in 0..255 :
            MemRead(oam, (obs.dmaFrom + i) % 256) = BusRead(Sys, dma.page * 256 + i)

\* C7: a DMA is active for 513 or 514 consecutive bus clocks, the first of them the
\* dummy cycle, for every transfer
DMALength ==
    obs.dmaDone => (obs.dmaClocks \in {513, 514} /\ obs.dmaFirstDummy /\ ~dma.transfer)

-----------------------------------------------------------------------------
(* MMC3 IRQ: a harness programs the IRQ registers and PPUMASK, clocks the   *)
(* counter by hand as a test does, and runs the first scanlines             *)

IRQSetup ==
    /\ ~obs.started
    /\ ~obs.irqSetup
    /\ \E n \in 0..MaxLatch, v \in MaskValues :
          SetSys([BusWrite(BusWrite(BusWrite(BusWrite(Sys, 8193, v), 49152, n), 49153, 0),
                           57345, 0)
                  EXCEPT !.obs.irqSetup = TRUE])
    /\ UNCHANGED pc

HostScanline ==
    /\ ~obs.started
    /\ obs.hostScanlines < MaxHostScanline
    /\ m4' = Mapper4Scanline(m4)
    /\ obs' = [obs EXCEPT !.hostScanlines = obs.hostScanlines + 1]
    /\ UNCHANGED <<ppu, oam, oamAddress, cpuRAM, dma, cpu, pc, rest>>

IRQStep ==
    /\ ppu.frame = 0
    /\ ppu.scanline < MaxIRQLines
    /\ SetSys(NESStep(Sys, NoOp))
    /\ UNCHANGED pc

NextIRQ == IRQSetup \/ HostScanline \/ IRQStep

SpecIRQ == InitWatching("irq") /\ [][NextIRQ]_vars

\* C8: with rendering enabled, latch N, a reload requested and IRQ enabled, the PPU
\* clocks the mapper once per rendered scanline, so the IRQ is pending once N+1
\* scanlines have been rendered
IRQAfterLatchPlusOneLines ==
    (obs.irqSetup /\ IsRenderingEnabled(ppu.mask) /\ obs.lines >= m4.irqLatch + 1)
        => IRQPending(m4)

\* C9: after a step in which the mapper's IRQ was pending after the bus clock, the
\* CPU's IRQ has been raised and the mapper's flag is clear
StepDeliversIRQ ==
    (obs.lastOp = "step" /\ obs.stepIRQ) => (cpu.IRQPending /\ ~IRQPending(m4))

-----------------------------------------------------------------------------
(* NMI: a program that switches the NMI enable bit of PPUCTRL at any time,  *)
(* and a host that polls the bus for the NMI between steps                  *)

NMIOps == {NoOp, WriteOp(8192, 128), WriteOp(8192, 0)}

NMIStep ==
    /\ ppu.frame < MaxFrame
    /\ \E op \in NMIOps : SetSys(NESStep(Sys, op))
    /\ UNCHANGED pc

\* NESBus.IsNMI called by the host
HostIsNMI ==
    /\ obs.started
    /\ ppu' = AfterGetNMI(ppu)
    /\ obs' = [obs EXCEPT !.lastGet = GetNMI(ppu), !.lastOp = "get"]
    /\ UNCHANGED <<oam, oamAddress, cpuRAM, dma, m4, cpu, pc, rest>>

NextNMI == NMIStep \/ HostIsNMI

SpecNMI == InitWatching("nmi") /\ [][NextNMI]_vars

\* C10: after every step, the NMIs raised in the current frame are exactly the
\* latches of scanline 241 cycle 1 taken with PPUCTRL bit 7 set, at most one per
\* frame, raised in the step of the latch; the latch is clear after the step's
\* GetNMI, so that the host's own GetNMI returns false
NMIOncePerFrame ==
    /\ obs.nmiRaised = obs.nmiDue
    /\ obs.nmiDue <= 1
    /\ obs.nmiDue = 1 => cpu.NMIPending
    /\ ~GetNMI(ppu)
    /\ ~obs.lastGet

\* C10 witness: the NMI was latched and raised in the last step of this frame's
\* scanline 241, and the host's GetNMI after it returned false
NMIRaisedThenPolled ==
    /\ obs.nmiDue = 1 /\ obs.nmiRaised = 1 /\ cpu.NMIPending
    /\ obs.lastOp = "get" /\ ~obs.lastGet
    /\ ppu.scanline = 241 /\ ppu.cycle \in 2..4

-----------------------------------------------------------------------------
(* CPU/PPU ratio: a program whose first instruction after power-on or     *)
(* reset may start an OAM DMA and which switches rendering on at any time, *)
(* and a host that resets the system at any time, also in the middle of a  *)
(* DMA                                                                     *)

SyncOps == {NoOp, WriteOp(8193, 8)}

SyncStep ==
    /\ obs.steps < MaxSyncSteps
    /\ \E op \in SyncOps : SetSys(NESStep(Sys, op))
    /\ UNCHANGED pc

\* STA $4014
SyncStartDMA ==
    /\ obs.steps = 0
    /\ ~dma.transfer
    /\ SetSys(NESStep(Sys, WriteOp(16404, 0)))
    /\ UNCHANGED pc

SyncReset ==
    /\ obs.started
    /\ obs.resets < MaxSyncResets
    /\ SetSys([NESReset(Sys) EXCEPT !.obs.resets = obs.resets + 1,
                                     !.obs.dmaStarted = obs.dmaStarted])
    /\ UNCHANGED pc

NextSync == SyncStep \/ SyncStartDMA \/ SyncReset

SpecSync == InitWatching("sync") /\ [][NextSync]_vars

\* C11: N steps after a reset (or after construction) the PPU has executed exactly
\* 3N ticks, which have taken it 3N dots on from scanline 0, cycle 0, whether or
\* not an OAM DMA is active
ThreeTicksPerStep ==
    /\ obs.ppuTicks = 3 * obs.steps
    /\ ppu.scanline * CyclesPerScanline + ppu.cycle = 3 * obs.steps

\* C11 witness: a reset came in the middle of a DMA, which is still transferring
\* 100 steps later
SteppedThroughDMA ==
    /\ obs.resets = 1 /\ obs.steps = 100 /\ dma.transfer /\ obs.ppuTicks = 300

-----------------------------------------------------------------------------
(* The scroll registers: the PPU runs its first frame untouched; the       *)
(* program then accesses the registers at the end of vertical blank and    *)
(* again in the middle of a rendered scanline, and the PPU renders the     *)
(* pre-render line and the first scanlines of the second frame             *)

ScrollWrites ==
    {<<8192, 7>>, <<8193, 8>>, <<8197, 255>>, <<8197, 239>>, <<8198, 255>>}

ScrollReads == {8194, 8199}

\* the positions at which the program runs
ScrollWindow ==
    \/ ppu.frame = 0 /\ ppu.scanline = ScanlinesPerFrame - 1 /\ ppu.cycle = CyclesPerScanline - 1
    \/ ppu.frame = 1 /\ ppu.scanline = 0 /\ ppu.cycle = 255

ScrollWrite ==
    /\ ScrollWindow
    /\ obs.accesses < MaxAccess
    /\ \E w \in ScrollWrites :
          SetSys([WriteCPURegister(Sys, w[1], w[2])
                  EXCEPT !.obs.accesses = obs.accesses + 1, !.obs.lastOp = "write",
                         !.obs.lastAddr = w[1], !.obs.lastValue = w[2]])
    /\ UNCHANGED pc

ScrollRead ==
    /\ ScrollWindow
    /\ obs.accesses < MaxAccess
    /\ \E a \in ScrollReads :
          SetSys([AfterReadCPURegister(Sys, a)
                  EXCEPT !.obs.accesses = obs.accesses + 1, !.obs.lastOp = "read",
                         !.obs.lastAddr = a, !.obs.lastRead = ReadCPURegister(Sys, a)])
    /\ UNCHANGED pc

ScrollTick ==
    /\ ppu.frame = 0 \/ (ppu.frame = 1 /\ ppu.scanline < MaxScrollLines)
    /\ SetSys([TickRender(Sys) EXCEPT !.obs.lastOp = "tick"])
    /\ UNCHANGED pc

NextScroll == ScrollWrite \/ ScrollRead \/ ScrollTick

SpecScroll == InitWatching("scroll") /\ [][NextScroll]_vars

\* C12: after any sequence of register reads and writes and PPU ticks, v and t are
\* at most 0x7FFF and fine_x is at most 7
LoopyRange ==
    /\ vram.v \in 0..32767
    /\ vram.t \in 0..32767
    /\ vram.fineX \in 0..7

\* C12 witness: v held 0x7FE0 (its vertical bits copied from t = 0x7FFF by the
\* pre-render line, its horizontal bits wrapped by the fetches of scanline 0) and a
\* $2007 read in the middle of the scanline has added 32 to it, wrapping it to 0
LoopyWrapped ==
    /\ obs.lastOp = "read" /\ obs.lastAddr = 8199
    /\ IncrementMode(ppu.control) = 32
    /\ ppu.frame = 1 /\ ppu.scanline = 0
    /\ vram.v = 0 /\ vram.t = 32767 /\ vram.fineX = 7

-----------------------------------------------------------------------------
(* Sprite evaluation: a program sets PPUCTRL and PPUMASK and fills OAM     *)
(* through $2004 before the PPU is clocked through its first scanlines     *)

SpriteWrites == {<<8192, 0>>, <<8192, 32>>, <<8193, 0>>, <<8193, 16>>, <<8193, 8>>}

\* the Y position the program gives sprite i in fill k: three sprites on the first
\* lines, eight sprites per band of 16 lines, nine sprites per band of 8 lines
SpriteY(k, i) ==
    CASE k = 1 -> IF i < 3 THEN 0 ELSE 240
      [] k = 2 -> 16 * (i \div 8)
      [] OTHER -> 8 * (i \div 9)

\* 256 writes to $2004 from OAMADDR 0: the Y byte of each sprite, the others 0
FillOAM(s, k) ==
    [s EXCEPT !.oam = [j \in {x \in 0..255 : x % 4 = 0 /\ SpriteY(k, x \div 4) # 0}
                          |-> SpriteY(k, j \div 4)]]

SpriteWriteReg ==
    /\ ~obs.started
    /\ \E w \in SpriteWrites : SetSys(WriteCPURegister(Sys, w[1], w[2]))
    /\ UNCHANGED pc

SpriteFillOAM ==
    /\ ~obs.started
    /\ oam = NewMem
    /\ oamAddress = 0
    /\ \E k \in 1..3 : SetSys(FillOAM(Sys, k))
    /\ UNCHANGED pc

SpriteTick ==
    /\ ppu.frame = 0
    /\ ppu.scanline < MaxSpriteLines
    /\ SetSys(TickRender(Sys))
    /\ UNCHANGED pc

NextSprite == SpriteWriteReg \/ SpriteFillOAM \/ SpriteTick

SpecSprite == InitWatching("sprite") /\ [][NextSprite]_vars

\* C13: the sprite count of the on-scanline sprite set is at most 8 in every state,
\* whatever OAM holds and whatever the sprite height
SpriteCountAtMostEight == spr.spriteCount \in 0..8

\* C13 witness: with 8x16 sprites and nine sprites on the line, the evaluation has
\* kept eight and set the overflow flag
SpriteOverflowed ==
    /\ spr.spriteCount = 8 /\ spr.sprite0Present
    /\ Bit(ppu.status, 5) = 1
    /\ SpriteSize(ppu.control) = 1
    /\ MemRead(oam, 36) = 8

-----------------------------------------------------------------------------
(* The address and data ports: a program that accesses $2000, $2002 and    *)
(* $2005-$2007 in any order while the PPU is not rendering                 *)

PortWrites ==
    {<<8192, 4>>, <<8197, 125>>, <<8198, 63>>, <<8198, 255>>, <<8198, 0>>, <<8198, 16>>,
     <<8198, 32>>, <<8199, 42>>}

PortReads == {8194, 8199}

\* what a run remembers of the access that takes s to q: the access itself, and how
\* far the program is into the sequence "read $2002, write $2006, write $2006"
ObservePort(s, q, op, addr, value) ==
    [s.obs EXCEPT
        !.accesses = s.obs.accesses + 1, !.lastOp = op, !.lastAddr = addr,
        !.lastValue = value,
        !.lastRead = IF op = "read" THEN ReadCPURegister(s, addr) ELSE s.obs.lastRead,
        !.phase = CASE op = "read" /\ addr = 8194 -> 1
                    [] op = "write" /\ addr = 8198 /\ s.obs.phase \in {1, 2} -> s.obs.phase + 1
                    [] OTHER -> 0,
        !.hi = IF s.obs.phase = 1 THEN value ELSE s.obs.hi,
        !.latchWas = IF op = "read" /\ addr = 8194 THEN s.vram.writeLatch
                     ELSE s.obs.latchWas,
        !.vWas = s.vram.v,
        !.bufWas = s.vram.readBuffer,
        !.memWas = ppuRead(s, s.vram.v)]

PortWrite ==
    /\ obs.accesses < MaxPortAccess
    /\ \E w \in PortWrites :
          LET q == WriteCPURegister(Sys, w[1], w[2])
          IN SetSys([q EXCEPT !.obs = ObservePort(Sys, q, "write", w[1], w[2])])
    /\ UNCHANGED pc

PortRead ==
    /\ obs.accesses < MaxPortAccess
    /\ \E a \in PortReads :
          LET q == AfterReadCPURegister(Sys, a)
          IN SetSys([q EXCEPT !.obs = ObservePort(Sys, q, "read", a, 0)])
    /\ UNCHANGED pc

NextPort == PortWrite \/ PortRead

\* the cartridge is an NROM with CHR-RAM
SpecPort == InitWith("port", LoadFromBytes(Image(0, 1, 0, 0))) /\ [][NextPort]_vars

\* C14: after any sequence of writes, the palette reads at 0x3F10, 0x3F14, 0x3F18 and
\* 0x3F1C equal those at 0x3F00, 0x3F04, 0x3F08 and 0x3F0C, a write through either
\* address of a pair being visible through both
PaletteMirrors ==
    /\ \A a \in {0, 4, 8, 12} : ppuRead(Sys, 16144 + a) = ppuRead(Sys, 16128 + a)
    /\ (obs.lastOp = "write" /\ obs.lastAddr = 8199
            /\ obs.vWas % 16384 \in {16128, 16144})
        => (ppuRead(Sys, 16128) = obs.lastValue /\ ppuRead(Sys, 16144) = obs.lastValue)

\* C14 witness: 0x2A written through 0x3F10 reads back through 0x3F00
PaletteWrittenThroughMirror ==
    /\ obs.lastOp = "write" /\ obs.lastAddr = 8199 /\ obs.vWas = 16144
    /\ ppuRead(Sys, 16128) = 42

\* C15: after a read of $2002, the first write to $2006 leaves v unchanged, and the
\* second sets v = t = ((H & 0x3F) << 8) | L, whatever writes to $2005 and $2006
\* came before the read
AddressLatchAfterStatusRead ==
    /\ obs.phase = 2 => vram.v = obs.vWas
    /\ obs.phase = 3 =>
            /\ vram.v = (obs.hi % 64) * 256 + obs.lastValue
            /\ vram.t = vram.v

\* C15 witness: the read of $2002 came when an odd number of writes to $2005 and
\* $2006 had left the latch set, and the pair H = 0xFF, L = 0x10 has set
\* v = t = 0x3F10
AddressSetAfterOddWrites ==
    /\ obs.phase = 3 /\ obs.latchWas
    /\ obs.hi = 255 /\ obs.lastValue = 16
    /\ vram.v = 16144 /\ vram.fineX = 5

\* C16: a read of $2007 refills the read buffer from the PPU bus at v and adds the
\* PPUCTRL increment to v; it returns the buffer's previous byte when the address
\* read is below the palette range and the refilled byte when it is in palette RAM
BufferedDataRead ==
    (obs.lastOp = "read" /\ obs.lastAddr = 8199) =>
        /\ vram.readBuffer = obs.memWas
        /\ vram.v = (obs.vWas + IncrementMode(ppu.control)) % 32768
        /\ obs.lastRead = IF obs.vWas % 16384 < 16128 THEN obs.bufWas ELSE obs.memWas

-----------------------------------------------------------------------------
(* Controller 1: a program that strobes and reads $4016, and a host that   *)
(* presses and releases buttons between the program's accesses             *)

PadSetButton ==
    /\ obs.presses < MaxPresses
    /\ \E b \in 0..7, pressed \in BOOLEAN :
          /\ pad' = SetButton(pad, b, pressed)
          /\ obs' = [obs EXCEPT !.presses = obs.presses + 1,
                                !.changed = obs.changed \/ pad' # pad,
                                !.lastOp = "set"]
    /\ UNCHANGED <<ppu, oam, oamAddress, cpuRAM, dma, m4, cpu, pc, vram, vmem, spr, mmc1, cart, pix>>

\* STA $4016
PadWrite ==
    /\ \E value \in {0, 1} :
          LET q == BusWrite(Sys, 16406, value)
              fall == pad.strobe /\ ~q.pad.strobe
          IN SetSys([q EXCEPT !.obs =
                 [obs EXCEPT !.fell = fall \/ (obs.fell /\ ~q.pad.strobe),
                             !.latched = IF fall THEN pad.buttons ELSE obs.latched,
                             !.changed = IF fall THEN FALSE ELSE obs.changed,
                             !.reads = IF fall THEN 0 ELSE obs.reads,
                             !.lastOp = "write"]])
    /\ UNCHANGED pc

\* LDA $4016
PadRead ==
    /\ obs.reads < MaxPadReads
    /\ SetSys([AfterBusRead(Sys, 16406) EXCEPT
                  !.obs = [obs EXCEPT !.reads = IF pad.strobe THEN obs.reads ELSE obs.reads + 1,
                                      !.lastRead = BusRead(Sys, 16406),
                                      !.lastOp = "read"]])
    /\ UNCHANGED pc

NextPad == PadSetButton \/ PadWrite \/ PadRead

SpecPad == InitWatching("pad") /\ [][NextPad]_vars

\* the bit the k-th read after the strobe is to return: the state of button k - 1
LatchedBit(k) == IF (k - 1) \in obs.latched THEN 1 ELSE 0

\* C17: after writing 1 then 0 to $4016, the next eight reads return in bit 0 the
\* states of A, B, Select, Start, Up, Down, Left, Right in that order (the buttons
\* being held as they are), and every further read returns 1
SerialReadOrder ==
    (obs.fell /\ ~pad.strobe /\ obs.lastOp = "read" /\ obs.reads >= 1) =>
        IF obs.reads <= 8
        THEN ~obs.changed => obs.lastRead % 2 = LatchedBit(obs.reads)
        ELSE obs.lastRead % 2 = 1

\* C17 witness: the 25th read after the strobe, where the read index has gone back
\* from 23 to 8, returns 1 with button A released
ReadPastIndexWrap ==
    /\ obs.fell /\ ~pad.strobe /\ obs.lastOp = "read"
    /\ obs.reads = 25 /\ pad.index = 9 /\ obs.lastRead = 1
    /\ pad.buttons = {3, 4}

\* C18: the eight reads after the strobe return the states the buttons had at the
\* falling edge of the strobe, even when the host changes a button between them
ReadsReturnLatchedStates ==
    (obs.fell /\ ~pad.strobe /\ obs.lastOp = "read" /\ obs.reads \in 1..8) =>
        obs.lastRead % 2 = LatchedBit(obs.reads)

\* C35: while strobe is set a read returns the current state of A and leaves the
\* read index unchanged; the index goes back to 0 only in a write that takes strobe
\* from 1 to 0, and a write while strobe is 0 leaves the index where it is
StrobeHoldsReadIndex ==
    [][/\ (obs'.lastOp = "read" /\ pad.strobe) =>
             /\ obs'.lastRead = (IF 0 \in pad.buttons THEN 1 ELSE 0)
             /\ pad'.index = pad.index
       /\ (pad.index # 0 /\ pad'.index = 0) =>
             obs'.lastOp = "write" /\ pad.strobe /\ ~pad'.strobe
       /\ (obs'.lastOp = "write" /\ ~pad.strobe) => pad'.index = pad.index]_vars

\* C35 witness: three reads into the sequence the program has set strobe again, and a
\* read has returned the pressed A with the index still at 3
ReadA_WhileStrobed ==
    /\ obs.lastOp = "read" /\ pad.strobe
    /\ pad.index = 3 /\ pad.buttons = {0} /\ obs.lastRead = 1

-----------------------------------------------------------------------------
(* MMC1: a program that writes the mapper's registers, with and without    *)
(* bit 7, at any of the four register addresses                            *)

MMC1Addrs == {32768, 40960, 49152, 57344}

MMC1Values == {1, 2, 128}

\* STA $8000-$FFFF.  The run counts the writes since the last one with bit 7 set,
\* modulo five, and collects bit 0 of each
MMC1Write ==
    /\ obs.writes < MaxMMC1Writes
    /\ \E a \in MMC1Addrs, d \in MMC1Values :
          /\ mmc1' = Mapper1WritePRG(mmc1, a, d)
          /\ obs' = [obs EXCEPT !.writes = obs.writes + 1, !.lastOp = "mmc1",
                                !.lastAddr = a, !.lastValue = d,
                                !.pos = IF d >= 128 THEN 0 ELSE (obs.pos + 1) % 5,
                                !.bits = IF d >= 128 \/ obs.pos = 4 THEN 0
                                         ELSE obs.bits + (d % 2) * (2 ^ obs.pos)]
    /\ UNCHANGED <<ppu, oam, oamAddress, cpuRAM, dma, m4, cpu, pc, vram, vmem, spr, pad, cart, pix>>

NextMMC1 == MMC1Write

SpecMMC1 == InitWatching("mmc1") /\ [][NextMMC1]_vars

\* the registers of m with the 5-bit value committed to the one at addr
Committed(m, addr, value) ==
    CASE addr < 40960 -> [m EXCEPT !.mirroring = value % 4, !.prgMode = (value \div 4) % 4,
                                   !.chrMode = value \div 16]
      [] addr >= 40960 /\ addr < 49152 -> [m EXCEPT !.chrBank0 = value]
      [] addr >= 49152 /\ addr < 57344 -> [m EXCEPT !.chrBank1 = value]
      [] OTHER -> [m EXCEPT !.prgBank = value % 16, !.prgRAMEnabled = value < 16]

\* C19: counted from a write with bit 7 set (or from power-on), the fifth of any five
\* consecutive writes with bit 7 clear commits the value whose bit i is bit 0 of the
\* (i+1)-th write to the register selected by the fifth write's address and resets
\* S to 0b10000 and k to 0; the first four change no register; a write with bit 7
\* set discards the bits and forces PRG mode 3; k is in 0..4 between writes
MMC1FiveWritesCommit ==
    [][LET a == obs'.lastAddr
           d == obs'.lastValue
           clear == [mmc1 EXCEPT !.shiftRegister = 16, !.shiftCount = 0]
       IN /\ mmc1'.shiftCount \in 0..4
          /\ mmc1'.shiftCount = obs'.pos
          /\ d >= 128 => mmc1' = [clear EXCEPT !.prgMode = 3]
          /\ (d < 128 /\ obs.pos < 4) =>
                /\ [mmc1' EXCEPT !.shiftRegister = 16, !.shiftCount = 0] = clear
                /\ mmc1'.shiftRegister % (2 ^ (3 - obs.pos)) = 0
                /\ mmc1'.shiftRegister \div (2 ^ (3 - obs.pos)) = 1 + 2 * obs'.bits
          /\ (d < 128 /\ obs.pos = 4) =>
                mmc1' = Committed(clear, a, obs.bits + (d % 2) * 16)]_vars

\* C19 witness: five writes of 0x01 to $8000 after a write with bit 7 set have set
\* mirroring = Horizontal, PRG mode = 3 and CHR mode = 1, and a later write with
\* bit 7 set has discarded two bits shifted in after them
MMC1ControlCommitted ==
    /\ mmc1.mirroring = 3 /\ Mapper1GetMirroring(mmc1) = MirrorHorizontal
    /\ mmc1.prgMode = 3 /\ mmc1.chrMode = 1
    /\ mmc1.chrBank0 = 0 /\ mmc1.chrBank1 = 0 /\ mmc1.prgBank = 0
    /\ mmc1.shiftRegister = 16 /\ mmc1.shiftCount = 0
    /\ obs.writes = 9 /\ obs.lastValue = 128

-----------------------------------------------------------------------------
(* MMC3 counter clocked by hand: a harness programs the IRQ registers,      *)
(* calls Scanline() itself and acknowledges the IRQ                         *)

\* $C000 <- n, $C001 <- any, $E001 <- any, after an optional $E000 <- any
MMC3Setup ==
    /\ obs.setups < MaxSetups
    /\ \E n \in 0..MaxCounterLatch, ack \in BOOLEAN :
          LET m0 == IF ack THEN Mapper4WritePRG(m4, 57344, 0) ELSE m4
          IN /\ m4' = Mapper4WritePRG(Mapper4WritePRG(Mapper4WritePRG(m0, 49152, n),
                                                      49153, 0), 57345, 0)
             /\ obs' = [obs EXCEPT !.setups = obs.setups + 1, !.calls = 0, !.fired = 0,
                                   !.pendingAtSetup = IRQPending(m0), !.lastOp = "setup"]
    /\ UNCHANGED <<ppu, oam, oamAddress, cpuRAM, dma, cpu, pc, rest>>

\* mapper.Scanline(); fired is the number of the first call after which the IRQ
\* was pending
MMC3Scanline ==
    /\ obs.calls < MaxScanlineCalls
    /\ m4' = Mapper4Scanline(m4)
    /\ obs' = [obs EXCEPT !.calls = obs.calls + 1, !.lastOp = "scanline",
                          !.fired = IF obs.fired = 0 /\ IRQPending(m4')
                                    THEN obs.calls + 1 ELSE obs.fired]
    /\ UNCHANGED <<ppu, oam, oamAddress, cpuRAM, dma, cpu, pc, rest>>

\* mapper.ClearIRQ()
MMC3ClearIRQ ==
    /\ obs.setups > 0
    /\ m4' = ClearIRQ(m4)
    /\ obs' = [obs EXCEPT !.lastOp = "clear"]
    /\ UNCHANGED <<ppu, oam, oamAddress, cpuRAM, dma, cpu, pc, rest>>

NextMMC3 == MMC3Setup \/ MMC3Scanline \/ MMC3ClearIRQ

SpecMMC3 == InitWatching("mmc3") /\ [][NextMMC3]_vars

-----------------------------------------------------------------------------
(* The loader: a caller hands LoadFromBytes buffers of any length with     *)
(* well-formed and ill-formed headers                                      *)

LoadMagics == {inesMagic, <<78, 69, 83, 0>>, <<0, 69, 83, 26>>}

\* flags 6: mirroring, trainer and four-screen bits under each low mapper nibble
LoadFlags6 == {lo + 16 * hi : lo \in {0, 1, 4, 8, 5}, hi \in {0, 1, 2, 3, 4, 5, 7, 9, 15}}

\* flags 7: high mapper nibbles 0, 1 and 4, and low bits that are not the mapper's
LoadFlags7 == {0, 16, 64, 8}

\* lengths below the header, and around the size the header asks for
LoadLengths(prg, chr, flags6) ==
    {0, 4, 15, 16} \cup
    {n \in {RequiredSize(prg, chr, flags6) + d : d \in {-8193, -8192, -513, -512, -1, 0, 1}} :
        n >= 0}

Min(a, b) == IF a < b THEN a ELSE b

Load ==
    /\ obs.lastOp = "none"
    /\ \E magic \in LoadMagics, prg \in 0..MaxPRGBanks, chr \in 0..MaxCHRBanks,
          flags6 \in LoadFlags6, flags7 \in LoadFlags7 :
          \E n \in LoadLengths(prg, chr, flags6) :
             LET data == [len |-> n,
                          head |-> SubSeq(magic \o <<prg, chr, flags6, flags7>>, 1, Min(n, 8)),
                          fill |-> "tagged"]
             IN /\ cart' = LoadFromBytes(data)
                /\ obs' = [obs EXCEPT !.lastOp = "load", !.input = data]
    /\ UNCHANGED <<ppu, oam, oamAddress, cpuRAM, dma, m4, cpu, pc, vram, vmem, spr, pad, mmc1,
                   pix>>

NextLoad == Load

SpecLoad == InitWith("load", NoCartridge) /\ [][NextLoad]_vars

\* C21: the load fails if and only if the buffer is shorter than 16 bytes, or does not
\* start with 'NES' 0x1A, or is shorter than 16 + (512 with a trainer) + 16384 x PRG
\* + 8192 x CHR, or its mapper id (flags7 & 0xF0) | (flags6 >> 4) is not supported;
\* otherwise it returns a cartridge with that mapper id
LoadFailsExactlyWhenMalformed ==
    obs.lastOp = "load" =>
        LET d == obs.input
            flags6 == d.head[7]
            flags7 == d.head[8]
            id == (flags7 \div 16) * 16 + (flags6 \div 16)
            malformed ==
                \/ d.len < 16
                \/ SubSeq(d.head, 1, 4) # <<78, 69, 83, 26>>
                \/ d.len < 16 + (IF (flags6 \div 4) % 2 = 1 THEN 512 ELSE 0)
                                + 16384 * d.head[5] + 8192 * d.head[6]
                \/ id \notin {0, 1, 2, 3, 4, 7}
        IN /\ ~cart.ok <=> malformed
           /\ cart.ok => cart.mapperID = id

\* C21 witness: a buffer of exactly the size its header asks for, with a trainer, CHR
\* and mapper 7, has been loaded
LoadedWithTrainer ==
    /\ obs.lastOp = "load" /\ cart.ok /\ cart.mapperID = 7 /\ cart.hasTrainer
    /\ cart.chrBanks = 1 /\ cart.prgBanks = 2
    /\ obs.input.len = 16 + 512 + 2 * 16384 + 8192

-----------------------------------------------------------------------------
(* A cartridge in use: a well-formed image of each supported mapper is     *)
(* loaded and the system built around it; the program writes to cartridge  *)
(* space, reads the bus, and the PPU side writes and reads CHR memory      *)

CartImages ==
    {Image(id, prg, chr, low) : id \in SupportedMappers, prg \in 1..MaxCartPRG,
                                chr \in 0..MaxCartCHR, low \in {0, 1, 4}}
        \cup {TestImage(id) : id \in SupportedMappers}

CartReadAddrs == {16384, 16405, 16408, 16415, 16416, 24575}

\* LoadFromBytes and NewFromCartridge: the PPU is given the cartridge's mirroring
Boot(s, data) ==
    LET c == LoadFromBytes(data)
    IN [s EXCEPT !.cart = c,
                 !.mmc1 = [NewMapper1 EXCEPT !.mirroring = c.mirroring],
                 !.m4 = [NewMapper4 EXCEPT !.mirroring = c.mirroring],
                 !.vram.mirroringMode = c.mirroring,
                 !.obs.lastOp = "load"]

BootLoad ==
    /\ ~cart.ok
    /\ \E data \in CartImages : SetSys(Boot(Sys, data))
    /\ UNCHANGED pc

\* LDA from the I/O area or from cartridge space below PRG-RAM
BootRead ==
    /\ cart.ok
    /\ \E a \in CartReadAddrs :
          SetSys([AfterBusRead(Sys, a) EXCEPT !.obs.lastOp = "read", !.obs.lastAddr = a,
                                              !.obs.lastRead = BusRead(Sys, a)])
    /\ UNCHANGED pc

NextBoot == BootLoad \/ BootRead

SpecBoot == InitWith("boot", NoCartridge) /\ [][NextBoot]_vars

\* one image of each mapper with CHR-ROM and one without
SmallImages == {Image(id, 1, chr, 0) : id \in SupportedMappers, chr \in 0..1}

CartLoad ==
    /\ ~cart.ok
    /\ \E data \in SmallImages : SetSys(Boot(Sys, data))
    /\ UNCHANGED pc

CartAddrs == {24576, 32769, 40961, 57344}

CartValues == {1, 8, 128, 192}

\* STA to cartridge space
CartWrite ==
    /\ cart.ok
    /\ obs.writes < MaxCartWrites
    /\ \E a \in CartAddrs, d \in CartValues :
          SetSys([BusWrite(Sys, a, d) EXCEPT !.obs.writes = obs.writes + 1,
                                             !.obs.lastOp = "write",
                                             !.obs.lastAddr = a, !.obs.lastValue = d])
    /\ UNCHANGED pc

CHRAddrs == {0, 2047, 4096, 8191}

\* mapper.WriteCHR(a, b) followed at once by mapper.ReadCHR(a)
CHRWriteRead ==
    /\ cart.ok
    /\ obs.accesses < MaxCHRWrites
    /\ \E a \in CHRAddrs, b \in {0, 85} :
          LET w == MapperWriteCHR(Sys, a, b)
          IN SetSys([w EXCEPT !.obs.accesses = obs.accesses + 1, !.obs.lastOp = "chr",
                              !.obs.lastAddr = a, !.obs.lastValue = b,
                              !.obs.lastRead = MapperReadCHR(w, a)])
    /\ UNCHANGED pc

NextCart == CartLoad \/ CartWrite \/ CHRWriteRead

SpecCart == InitWith("cart", NoCartridge) /\ [][NextCart]_vars

\* C22: right after the load, ReadPRG(0xFFFC) and ReadPRG(0xFFFD) are the PRG bytes at
\* offsets 16384 x N - 4 and 16384 x N - 3, for every supported mapper and N >= 1
ResetVectorAtEndOfPRG ==
    (obs.lastOp = "load" /\ cart.ok /\ cart.prgBanks >= 1) =>
        /\ MapperReadPRG(Sys, 65532)
              = DataByte(cart.data, cart.prgOff + 16384 * cart.prgBanks - 4)
        /\ MapperReadPRG(Sys, 65533)
              = DataByte(cart.data, cart.prgOff + 16384 * cart.prgBanks - 3)

\* the last step wrote a byte to PRG-RAM space on MMC1 or MMC3, with MMC3's
\* write-protect not asserted
WroteToPRGRAM ==
    /\ obs.lastOp = "write" /\ obs.lastAddr >= 24576 /\ obs.lastAddr < 32768
    /\ cart.mapperID \in {1, 4}
    /\ cart.mapperID = 4 => ~m4.prgRAMWriteProtect

\* C23 as stated: on MMC1 and MMC3, whenever MMC3's write-protect is not asserted, a
\* byte written to $6000-$7FFF is read back from that address
PRGRAMReadsBack ==
    WroteToPRGRAM => MapperReadPRG(Sys, obs.lastAddr) = obs.lastValue

\* C23 amended: the same while PRG-RAM is enabled, that is unless bit 4 of MMC1's PRG
\* register is set or the last write to MMC3's RAM-protect register had bit 7 clear
PRGRAMReadsBackWhenEnabled ==
    (WroteToPRGRAM /\ (cart.mapperID = 1 => mmc1.prgRAMEnabled)
                   /\ (cart.mapperID = 4 => m4.prgRAMEnabled))
        => MapperReadPRG(Sys, obs.lastAddr) = obs.lastValue

\* C23 witness: after two writes to MMC3's registers that leave its RAM enabled,
\* 0xC0 written to $6000 is in the RAM
PRGRAMWrittenAfterEnable ==
    /\ WroteToPRGRAM /\ cart.mapperID = 4 /\ obs.writes = 3
    /\ m4.prgRAMEnabled /\ obs.lastAddr = 24576 /\ obs.lastValue = 192
    /\ MemRead(cart.m.prgRAM, 0) = 192

\* C24: on a cartridge loaded with CHR bank count 0, WriteCHR(A, B) followed at once
\* by ReadCHR(A) returns B, under every bank configuration CPU writes can reach
CHRRAMReadsBack ==
    (obs.lastOp = "chr" /\ cart.chrBanks = 0) => obs.lastRead = obs.lastValue

\* C28: a CPU read of $4000-$4015, $4018-$401F or $4020-$5FFF returns 0 and changes
\* no state, on every supported mapper and every PRG size
UnmappedReadsZero ==
    [][obs'.lastOp = "read" =>
          /\ obs'.lastRead = 0
          /\ UNCHANGED <<ppu, oam, oamAddress, cpuRAM, dma, m4, cpu, pc, rest>>]_vars

-----------------------------------------------------------------------------
(* Nametable mirroring: a cartridge of any supported mapper is loaded with  *)
(* any mirroring bits in its header, the program writes to the mapper's    *)
(* registers and reaches the nametables through $2006 and $2007            *)

\* flags 6 bit 0 (vertical) and bit 3 (four-screen)
MirrorFlags == {0, 1, 8, 9}

MirrorImages == {Image(id, 1, 0, low) : id \in SupportedMappers, low \in MirrorFlags}

MirrorLoad ==
    /\ ~cart.ok
    /\ \E data \in MirrorImages : SetSys(Boot(Sys, data))
    /\ UNCHANGED pc

\* MMC1's serial port and AxROM's bank register at $8000, MMC3's mirroring register
\* at $A000
MirrorRegs == {32768, 40960}

\* bit 0 for MMC1 and MMC3, bit 4 for AxROM
MirrorValues == {0, 1, 16}

\* STA to a mapper register
MirrorWrite ==
    /\ cart.ok /\ ~vmem.fault
    /\ obs.writes < MaxMirrorWrites
    /\ \E a \in MirrorRegs, d \in MirrorValues :
          SetSys([BusWrite(Sys, a, d) EXCEPT !.obs.writes = obs.writes + 1,
                                             !.obs.lastOp = "write"])
    /\ UNCHANGED pc

\* the first and the last byte of each of the four logical nametables and of the
\* mirror of the nametable space at $3000-$3EFF
NametableAddrs == {8192, 9215, 9216, 10239, 10240, 11263, 11264, 12287, 12288, 16127}

\* the bytes the program stores
MirrorBytes == {7}

\* STA $2006 twice and STA $2007: one byte stored at a nametable address
MirrorAccess ==
    /\ cart.ok /\ ~vmem.fault
    /\ obs.accesses < MaxMirrorAccesses
    /\ \E a \in NametableAddrs, b \in MirrorBytes :
          LET hi == BusWrite(Sys, 8198, a \div 256)
              lo == BusWrite(hi, 8198, a % 256)
          IN SetSys([BusWrite(lo, 8199, b)
                        EXCEPT !.obs.accesses = obs.accesses + 1, !.obs.lastOp = "access",
                               !.obs.lastAddr = a, !.obs.lastValue = b])
    /\ UNCHANGED pc

NextMirror == MirrorLoad \/ MirrorWrite \/ MirrorAccess

SpecMirror == InitWith("mirror", NoCartridge) /\ [][NextMirror]_vars

\* C25: under every mirroring mode the loader hands to the PPU or a mapper reports,
\* every nametable address is indexed inside the 2048-byte nametable memory, and no
\* nametable access faults
NametableIndexInRange ==
    cart.ok =>
        /\ ~vmem.fault
        /\ \A a \in NametableAddrs :
              /\ mirrorNametableAddress(vram.mirroringMode, a) \in 0..(nametableSize - 1)
              /\ mirrorNametableAddress(MapperGetMirroring(Sys), a)
                     \in 0..(nametableSize - 1)

\* C26: the PPU's mirroring mode is the mapper's GetMirroring() in every state, so the
\* byte a nametable access stores lies where the mapper's present mode puts it
PPUMirroringFollowsMapper ==
    cart.ok =>
        /\ vram.mirroringMode = MapperGetMirroring(Sys)
        /\ (obs.lastOp = "access" /\ ~vmem.fault) =>
              MemRead(vmem.nametable,
                      mirrorNametableAddress(MapperGetMirroring(Sys), obs.lastAddr))
                  = obs.lastValue

-----------------------------------------------------------------------------
(* Reset: a program whose first instruction after power-on or reset may    *)
(* write a PPU register, and a host that resets the system at any time     *)

\* STA $2001 (background on), STA $2000 (NMI on), STA $2006 (sets the write latch)
ResetOps == {NoOp, WriteOp(8193, 8), WriteOp(8192, 128), WriteOp(8198, 0)}

ResetStep ==
    /\ ppu.frame < MaxResetFrames
    /\ \E op \in ResetOps :
          /\ (op # NoOp) => (ppu.scanline = 0 /\ ppu.cycle = 0)
          /\ SetSys([NESStep(Sys, op) EXCEPT !.obs.lastOp = "step"])
    /\ UNCHANGED pc

ResetCall ==
    /\ obs.started
    /\ obs.resets < MaxResets
    /\ SetSys([NESReset(Sys) EXCEPT !.obs.resets = obs.resets + 1, !.obs.lastOp = "reset"])
    /\ UNCHANGED pc

NextReset == ResetStep \/ ResetCall

SpecReset == InitWatching("reset") /\ [][NextReset]_vars

\* C27: right after Reset, from whatever state, the PPU's scanline, cycle, odd-frame
\* parity, frame-complete flag, control, mask, status, NMI latch and write latch are
\* those of power-on
ResetRestoresPowerOn ==
    obs.lastOp = "reset" =>
        /\ [ppu EXCEPT !.frame = NewPPU.frame] = NewPPU
        /\ vram.writeLatch = NewVRAM.writeLatch

-----------------------------------------------------------------------------
(* Rendering: a program that fills palette RAM and OAM and sets PPUMASK    *)
(* right after power-on, on an NROM cartridge with CHR-ROM, and the PPU    *)
(* clocked through the first scanlines of the frame                        *)

\* STA $2006 twice and four STA $2007: byte b0 stored at PPU address a and byte b1
\* at the three addresses after it
StoreVRAM(s, a, b0, b1) ==
    BusWrite(BusWrite(BusWrite(BusWrite(BusWrite(BusWrite(s, 8198, a \div 256),
                                                 8198, a % 256),
                                        8199, b0), 8199, b1), 8199, b1), 8199, b1)

\* STA $2003 and four STA $2004: sprite 0 at the top of the screen, 24 pixels from
\* the left, with attribute byte a
StoreSprite0(s, a) ==
    BusWrite(BusWrite(BusWrite(BusWrite(BusWrite(s, 8195, 0), 8196, 0), 8196, 1), 8196, a),
             8196, 24)

\* bytes for the backdrop entry, without and with bits 6 and 7
BackdropBytes == {0, 255}

\* bytes for the other entries, without and with bit 6
PaletteBytes == {42, 106}

\* sprite attributes: palette 1 in front, palette 2 behind the background
SpriteAttributes == {1, 34}

\* PPUMASK: rendering off, background only, both, both with the left edge shown
RenderMasks == {0, 8, 24, 30}

RenderSetup ==
    /\ ~obs.started /\ obs.lastOp = "none"
    /\ \E b0 \in BackdropBytes, b1 \in PaletteBytes, a \in SpriteAttributes,
          m \in RenderMasks :
          \* the backdrop and background palette 0, sprite palettes 1 and 2, sprite 0
          \E s1 \in {StoreVRAM(Sys, 16128, b0, b1)} :
          \E s2 \in {StoreVRAM(s1, 16148, b1, b1)} :
          \E s3 \in {StoreVRAM(s2, 16152, b1, b1)} :
          \E s4 \in {StoreSprite0(s3, a)} :
              SetSys([BusWrite(s4, 8193, m) EXCEPT !.obs.lastOp = "setup"])
    /\ UNCHANGED pc

RenderTick ==
    /\ obs.lastOp # "none"
    /\ ppu.frame = 0
    /\ ppu.scanline < MaxRenderLines
    /\ \E n \in {TickPixel(Sys)} : SetSys([n EXCEPT !.obs.lastOp = "tick"])
    /\ UNCHANGED pc

NextRender == RenderSetup \/ RenderTick

SpecRender == InitWith("render", LoadFromBytes(Image(0, 1, 1, 0))) /\ [][NextRender]_vars

\* C29: every byte of the frame buffer is a palette index in 0..63, whatever bytes
\* palette RAM holds
FrameBufferHoldsPaletteIndices ==
    \A i \in 1..Len(pix.frameBuffer) : pix.frameBuffer[i].value \in 0..63

\* C29 witness: palette RAM holds 0xFF in the backdrop entry and 0x6A elsewhere, the
\* second scanline has been drawn with background and sprites on, and the frame
\* buffer holds 63 for a backdrop pixel of the first line and 42 where sprite 0
\* has an opaque pixel on the second
RenderedFromWidePaletteBytes ==
    /\ ppu.mask = 30 /\ ppu.scanline = 1 /\ ppu.cycle = 257
    /\ MemRead(vmem.paletteRAM, 0) = 255 /\ MemRead(vmem.paletteRAM, 23) = 106
    /\ renderSprites(Sys, 27).pixel = 3 /\ renderSprites(Sys, 27).isSprite0
    /\ FBRead(pix.frameBuffer, 0) = 63
    /\ FBRead(pix.frameBuffer, ScreenWidth + 27) = 42

-----------------------------------------------------------------------------
(* The backdrop frame: a program that may set the backdrop entry of palette *)
(* RAM after power-on and never enables rendering, and a host that lets it *)
(* run for a few steps, resets the system and calls RunFrame once          *)

\* bytes for the backdrop entry, without and with bit 6
BackdropValues == {21, 106}

\* the program stores a byte at $3F00, and 0xFF at $3F01-$3F03
BackdropSetup ==
    /\ pc = "idle" /\ obs.resets = 0
    /\ obs.writes < MaxBackdropWrites
    /\ \E b0 \in BackdropValues :
          SetSys([StoreVRAM(Sys, 16128, b0, 255) EXCEPT !.obs.lastOp = "setup",
                                                        !.obs.writes = obs.writes + 1])
    /\ UNCHANGED pc

BackdropStep ==
    /\ pc = "idle" /\ obs.resets = 0
    /\ obs.steps < MaxBackdropSteps
    /\ \E n \in {NESStepPixel(Sys, NoOp)} : SetSys([n EXCEPT !.obs.steps = obs.steps + 1])
    /\ UNCHANGED pc

BackdropReset ==
    /\ pc = "idle" /\ obs.resets = 0
    /\ SetSys([NESReset(Sys) EXCEPT !.obs.resets = 1, !.obs.lastOp = "reset",
                                     !.obs.steps = obs.steps, !.obs.writes = obs.writes])
    /\ UNCHANGED pc

BackdropRunFrame ==
    /\ pc = "idle" /\ obs.lastOp = "reset"
    /\ ppu' = ClearFrameComplete(ppu)
    /\ pc' = "running"
    /\ obs' = [obs EXCEPT !.lastOp = "call"]
    /\ UNCHANGED <<oam, oamAddress, cpuRAM, dma, m4, cpu, rest>>

BackdropFrameStep ==
    /\ pc = "running"
    /\ ~ppu.frameComplete
    /\ \E n \in {NESStepPixel(Sys, NoOp)} : SetSys([n EXCEPT !.obs.lastOp = "step"])
    /\ UNCHANGED pc

BackdropReturn ==
    /\ pc = "running"
    /\ ppu.frameComplete
    /\ pc' = "idle"
    /\ obs' = [obs EXCEPT !.lastOp = "return"]
    /\ UNCHANGED <<ppu, oam, oamAddress, cpuRAM, dma, m4, cpu, rest>>

NextBackdrop ==
    \/ BackdropSetup \/ BackdropStep \/ BackdropReset
    \/ BackdropRunFrame \/ BackdropFrameStep \/ BackdropReturn

SpecBackdrop ==
    InitWith("backdrop", LoadFromBytes(Image(0, 1, 1, 0))) /\ [][NextBackdrop]_vars

\* C30: with rendering never enabled and palette entry 0 unchanged, after Reset and
\* one RunFrame every byte of the frame buffer is the low 6 bits of palette RAM
\* entry 0
BackdropFillsFrame ==
    (pc = "idle" /\ obs.lastOp = "return") =>
        pix.frameBuffer = <<[value |-> MemRead(vmem.paletteRAM, 0) % 64,
                             end |-> ScreenWidth * ScreenHeight]>>

\* C30 witness: RunFrame has returned with the backdrop entry holding 0x6A, after a
\* reset that came when the first pixels of the power-on frame were drawn and the
\* program had stored the backdrop byte twice
BackdropFrameDrawn ==
    /\ pc = "idle" /\ obs.lastOp = "return"
    /\ obs.steps = MaxBackdropSteps /\ obs.writes = MaxBackdropWrites
    /\ MemRead(vmem.paletteRAM, 0) = 106
    /\ FBRead(pix.frameBuffer, 0) = 42
    /\ FBRead(pix.frameBuffer, ScreenWidth * ScreenHeight - 1) = 42
    /\ ppu.frameComplete


-----------------------------------------------------------------------------
(* Sprite-0 hit: a program that sets the fine X scroll, sprite 0 and        *)
(* PPUMASK right after power-on, on an NROM cartridge with CHR-ROM, and the *)
(* PPU clocked through the first scanlines of the frame.  Every pattern     *)
(* byte of the cartridge is one of 0x11..0x14, so an unflipped sprite has   *)
(* an opaque pixel in column 3 of each row and a flipped one in column 0.   *)

MaxHitLines == 3

\* sprite 0: flipped at the left edge, unflipped inside the line, unflipped with a
\* pixel in the last column
HitSprites == {[attr |-> 64, x |-> 0], [attr |-> 0, x |-> 24], [attr |-> 0, x |-> 252]}

\* fine X scroll: 3 brings the opaque column 3 of the first tile to x = 0
HitFineX == {0, 3}

\* PPUMASK: background only, sprites only, both with each choice of the left edge
HitMasks == {8, 16, 24, 26, 28, 30}

\* STA $2005 twice, STA $2003 and four STA $2004, STA $2001
HitSetup ==
    /\ ~obs.started /\ obs.lastOp = "none"
    /\ \E sp \in HitSprites, fx \in HitFineX, m \in HitMasks :
          \E s1 \in {BusWrite(BusWrite(Sys, 8197, fx), 8197, 0)} :
          \E s2 \in {BusWrite(BusWrite(BusWrite(s1, 8195, 0), 8196, 0), 8196, 1)} :
          \E s3 \in {BusWrite(BusWrite(s2, 8196, sp.attr), 8196, sp.x)} :
              SetSys([BusWrite(s3, 8193, m) EXCEPT !.obs.lastOp = "setup"])
    /\ UNCHANGED pc

HitTick ==
    /\ obs.lastOp # "none"
    /\ ppu.frame = 0
    /\ ppu.scanline < MaxHitLines
    /\ \E n \in {TickPixel(Sys)} : SetSys([n EXCEPT !.obs.lastOp = "tick"])
    /\ UNCHANGED pc

NextHit == HitSetup \/ HitTick

SpecHit == InitWith("hit", LoadFromBytes(Image(0, 1, 1, 0))) /\ [][NextHit]_vars

\* the claim's condition on the pixel about to be output at x = cycle - 1
HitExpected ==
    LET x == ppu.cycle - 1
        bg == BackgroundPixel(Sys)
        sp == renderSprites(Sys, x)
        maskedLeft == x < 8 /\ (~RenderBackgroundLeft(ppu.mask) \/ ~RenderSpritesLeft(ppu.mask))
    IN /\ sp.isSprite0
       /\ bg.pixel # 0 /\ sp.pixel # 0
       /\ x # 255
       /\ ~maskedLeft
       /\ RenderBackground(ppu.mask) /\ RenderSprites(ppu.mask)

\* C31: a tick that outputs a pixel of a visible scanline sets the sprite-0-hit bit
\* exactly when the sprite pixel is sprite 0's, background and sprite pixels are both
\* nonzero, x is not 255, the pixel is not in a masked left edge and background and
\* sprite rendering are both on
Sprite0HitExactlyOnOverlap ==
    [][(VisibleDot(ppu) /\ obs'.lastOp = "tick")
          => ((Bit(ppu'.status, 6) # 0) <=> (Bit(ppu.status, 6) # 0 \/ HitExpected))]_vars


-----------------------------------------------------------------------------
(* The vertical increment: v holds any 15-bit value and IncrementY is      *)
(* applied to it, as PPU.Clock does at cycle 256 of a rendered scanline    *)

MaxIncrements == 2

\* v as rendering and the register writes may have left it
LoopyLoad ==
    /\ ~obs.started
    /\ \E v0 \in 0..32767 :
          SetSys([Sys EXCEPT !.vram.v = v0, !.obs.vWas = v0, !.obs.lastOp = "load",
                             !.obs.started = TRUE])
    /\ UNCHANGED pc

\* p.v.IncrementY()
LoopyIncrementY ==
    /\ obs.started
    /\ obs.calls < MaxIncrements
    /\ SetSys([Sys EXCEPT !.vram.v = IncrementY(vram.v), !.obs.vWas = vram.v,
                          !.obs.calls = obs.calls + 1, !.obs.lastOp = "incrementY"])
    /\ UNCHANGED pc

NextIncrementY == LoopyLoad \/ LoopyIncrementY

SpecIncrementY == InitWatching("incrementY") /\ [][NextIncrementY]_vars

\* C32: the vertical increment adds 1 to fine Y; from fine Y 7 it sets fine Y to 0
\* and advances coarse Y, where 29 wraps to 0 and flips NT_y, 31 wraps to 0 without
\* flipping NT_y and any other row is incremented; coarse X and NT_x are unchanged
VerticalIncrementAdvancesRow ==
    obs.lastOp = "incrementY" =>
        LET w == obs.vWas
            v == vram.v
        IN /\ CoarseX(v) = CoarseX(w) /\ NametableX(v) = NametableX(w)
           /\ FineY(w) < 7 =>
                 /\ FineY(v) = FineY(w) + 1
                 /\ CoarseY(v) = CoarseY(w) /\ NametableY(v) = NametableY(w)
           /\ FineY(w) = 7 =>
                 /\ FineY(v) = 0
                 /\ CoarseY(w) = 29 =>
                       CoarseY(v) = 0 /\ NametableY(v) = 1 - NametableY(w)
                 /\ CoarseY(w) = 31 =>
                       CoarseY(v) = 0 /\ NametableY(v) = NametableY(w)
                 /\ CoarseY(w) \notin {29, 31} =>
                       CoarseY(v) = CoarseY(w) + 1 /\ NametableY(v) = NametableY(w)

\* C32 witness: the increment has taken v from fine Y 7 of row 31 of the lower
\* nametable, column 21 of the right one, to row 0 of the same nametables
IncrementedFromRow31 ==
    /\ obs.lastOp = "incrementY"
    /\ obs.vWas = 7 * 4096 + 2048 + 1024 + 31 * 32 + 21
    /\ vram.v = 2048 + 1024 + 21


-----------------------------------------------------------------------------
(* The status flags over a frame: a program that writes $2005 once, puts   *)
(* sprite 0 on the first scanlines and sets PPUMASK right after power-on,  *)
(* and later reads $2002 while the PPU draws the third scanline and again  *)
(* in vertical blank; the PPU runs through its first frame and the         *)
(* pre-render line of the second                                           *)

MaxVBlankLines == 1
MaxStatusReads == 2

\* PPUMASK: rendering off, background and sprites on with the left edge shown
VBlankMasks == {0, 30}

\* STA $2005 (which leaves the write latch set), the sprite, STA $2001
VBlankSetup ==
    /\ ~obs.started /\ obs.lastOp = "none"
    /\ \E m \in VBlankMasks :
          \E s1 \in {BusWrite(Sys, 8197, 0)} :
          \E s2 \in {BusWrite(BusWrite(BusWrite(s1, 8195, 0), 8196, 0), 8196, 1)} :
          \E s3 \in {BusWrite(BusWrite(s2, 8196, 0), 8196, 24)} :
              SetSys([BusWrite(s3, 8193, m) EXCEPT !.obs.lastOp = "setup"])
    /\ UNCHANGED pc

\* the positions at which the program reads $2002
StatusWindow ==
    /\ ppu.frame = 0
    /\ \/ ppu.scanline = 2 /\ ppu.cycle = 0
       \/ ppu.scanline = 241 /\ ppu.cycle = 2

\* LDA $2002
VBlankRead ==
    /\ obs.lastOp = "tick"
    /\ StatusWindow
    /\ obs.reads < MaxStatusReads
    /\ SetSys([AfterReadCPURegister(Sys, 8194)
               EXCEPT !.obs.reads = obs.reads + 1, !.obs.lastOp = "read",
                      !.obs.lastRead = ReadCPURegister(Sys, 8194)])
    /\ UNCHANGED pc

VBlankTick ==
    /\ obs.lastOp # "none"
    /\ ppu.frame = 0 \/ (ppu.frame = 1 /\ ppu.scanline < MaxVBlankLines)
    /\ \E n \in {TickPixel(Sys)} : SetSys([n EXCEPT !.obs.lastOp = "tick"])
    /\ UNCHANGED pc

NextVBlank == VBlankSetup \/ VBlankRead \/ VBlankTick

SpecVBlank == InitWith("vblank", LoadFromBytes(Image(0, 1, 1, 0))) /\ [][NextVBlank]_vars

\* the positions after the tick of scanline 241 cycle 1 up to the tick of scanline -1
\* cycle 1
InVBlankSpan(p) ==
    \/ p.scanline = 241 /\ p.cycle >= 2
    \/ p.scanline > 241
    \/ p.scanline = -1 /\ p.cycle <= 1

\* C33: without a read of $2002 the VBlank bit is set exactly from the tick of
\* scanline 241 cycle 1 until the tick of scanline -1 cycle 1; that tick clears
\* sprite-0-hit and sprite-overflow; a $2002 read clears the VBlank bit and the
\* write latch and nothing else
VBlankSpansVerticalBlank ==
    /\ [](obs.reads = 0 => (VBlank(ppu.status) <=> InVBlankSpan(ppu)))
    /\ [][(obs'.lastOp = "tick" /\ ppu.scanline = -1 /\ ppu.cycle = 1)
             => ppu'.status = 0]_vars
    /\ [][obs'.lastOp = "read"
             => /\ ppu' = [ppu EXCEPT !.status = ClearBit(ppu.status, 7)]
                /\ vram' = [vram EXCEPT !.writeLatch = FALSE]
                /\ UNCHANGED <<oam, oamAddress, cpuRAM, dma, m4, cpu, pc, vmem, spr,
                               pad, mmc1, cart, pix>>]_vars

\* C33 witness: the read in vertical blank returned VBlank, sprite-0-hit and
\* sprite-overflow (and found the write latch set), and the tick of scanline -1
\* cycle 1 has cleared the two flags the read had left
FlagsClearedOnPreRender ==
    /\ obs.reads = 1 /\ obs.lastRead = 224
    /\ ~vram.writeLatch
    /\ ppu.frame = 1 /\ ppu.scanline = -1 /\ ppu.cycle = 2
    /\ ppu.status = 0


-----------------------------------------------------------------------------
(* Sprite evaluation and secondary OAM: a program fills OAM and sets       *)
(* PPUCTRL and PPUMASK right after power-on, and the PPU runs through its  *)
(* first frame and the pre-render line of the second                       *)

MaxEvalLines == 0

\* byte j of OAM in fill k: the Y positions of SpriteY, tile i + 1, attributes 0 and
\* X position 2i for sprite i
SpriteByte(k, j) ==
    CASE j % 4 = 0 -> SpriteY(k, j \div 4)
      [] j % 4 = 1 -> (j \div 4) + 1
      [] j % 4 = 2 -> 0
      [] OTHER -> 2 * (j \div 4)

\* 256 writes to $2004 from OAMADDR 0
FillSprites(s, k) ==
    [s EXCEPT !.oam = [j \in {x \in 0..255 : SpriteByte(k, x) # 0} |-> SpriteByte(k, j)]]

\* PPUCTRL and PPUMASK: 8x8 and 8x16 sprites with sprites shown, 8x8 sprites with
\* rendering off
EvalModes == {<<0, 16>>, <<32, 16>>, <<0, 0>>}

EvalSetup ==
    /\ ~obs.started /\ obs.lastOp = "none"
    /\ \E k \in 1..3, m \in EvalModes :
          \E s1 \in {FillSprites(Sys, k)} :
              SetSys([BusWrite(BusWrite(s1, 8192, m[1]), 8193, m[2])
                      EXCEPT !.obs.lastOp = "setup"])
    /\ UNCHANGED pc

EvalTick ==
    /\ obs.lastOp # "none"
    /\ ppu.frame = 0 \/ (ppu.frame = 1 /\ ppu.scanline < MaxEvalLines)
    /\ \E n \in {TickPixel(Sys)} : SetSys([n EXCEPT !.obs.lastOp = "tick"])
    /\ UNCHANGED pc

NextEval == EvalSetup \/ EvalTick

SpecEval == InitWith("eval", LoadFromBytes(Image(0, 1, 1, 0))) /\ [][NextEval]_vars

\* the OAM entries whose row on the current scanline is within the sprite height
SpritesInRange ==
    LET height == IF SpriteSize(ppu.control) # 0 THEN 16 ELSE 8
    IN {i \in 0..63 : LET row == ppu.scanline - MemRead(oam, i * 4)
                      IN 0 <= row /\ row < height}

\* the first eight of them in OAM order, or none with rendering disabled
SpritesSelected ==
    IF IsRenderingEnabled(ppu.mask)
    THEN {i \in SpritesInRange : Cardinality({j \in SpritesInRange : j < i}) < 8}
    ELSE {}

\* C34: the tick of cycle 257 of a scanline in -1..239 copies into secondary OAM the
\* first (at most 8) sprites in OAM order whose row is within the sprite height,
\* marks sprite 0 present iff entry 0 is among them, and sets sprite-overflow iff
\* at least 9 sprites are in range; with rendering disabled it selects none and
\* does not set overflow
EvaluationSelectsFirstEight ==
    [][(/\ obs'.lastOp = "tick"
        /\ ppu.cycle = 257 /\ ppu.scanline >= -1 /\ ppu.scanline <= 239)
          => /\ spr'.spriteCount = Cardinality(SpritesSelected)
             /\ \A i \in SpritesSelected :
                   LET slot == Cardinality({j \in SpritesSelected : j < i})
                   IN \A b \in 0..3 :
                         pix'.secondaryOAM[slot * 4 + b] = MemRead(oam, i * 4 + b)
             /\ spr'.sprite0Present <=> 0 \in SpritesSelected
             /\ (Bit(ppu'.status, 5) # 0)
                   <=> \/ Bit(ppu.status, 5) # 0
                       \/ /\ IsRenderingEnabled(ppu.mask)
                          /\ Cardinality(SpritesInRange) >= 9]_vars

\* C34 witness: with nine 8x8 sprites on scanline 9 the evaluation has copied
\* sprites 9..16, without sprite 0, and set the overflow flag
EvaluatedNineOnLine ==
    /\ ppu.frame = 0 /\ ppu.scanline = 9 /\ ppu.cycle = 258
    /\ SpriteSize(ppu.control) = 0
    /\ spr.spriteCount = 8 /\ ~spr.sprite0Present
    /\ pix.secondaryOAM[0] = 8 /\ pix.secondaryOAM[1] = 10 /\ pix.secondaryOAM[3] = 18
    /\ pix.secondaryOAM[29] = 17
    /\ Bit(ppu.status, 5) = 1


-----------------------------------------------------------------------------
(* MMC3 PRG banking: an MMC3 cartridge with two or four 8 KiB PRG banks    *)
(* is loaded and the program writes to the bank-select, bank-data,         *)
(* mirroring and IRQ registers.  The run keeps, from the writes alone, the *)
(* register selected, the PRG mode bit and the values given to R6 and R7.  *)

MaxBankPRG == 2
MaxBankWrites == 4

BankLoad ==
    /\ ~cart.ok
    /\ \E prg \in 1..MaxBankPRG : SetSys(Boot(Sys, Image(4, prg, 1, 0)))
    /\ UNCHANGED pc

\* bank select, bank data (also through a mirror), mirroring, IRQ disable
BankRegs == {32768, 32769, 36865, 40960, 57344}

\* as a bank-select word: R0, R6 or R7 with PRG mode 0, R6 or R7 with PRG mode 1;
\* as a bank number: banks 0 and 3 and four numbers past the end of the ROM
BankValues == {0, 3, 6, 7, 70, 71}

\* STA to a mapper register
BankWrite ==
    /\ cart.ok
    /\ obs.writes < MaxBankWrites
    /\ \E a \in BankRegs, d \in BankValues :
          LET select == a < 40960 /\ a % 2 = 0
              data == a < 40960 /\ a % 2 = 1
          IN SetSys([BusWrite(Sys, a, d) EXCEPT
                        !.obs.writes = obs.writes + 1, !.obs.lastOp = "write",
                        !.obs.lastAddr = a, !.obs.lastValue = d,
                        !.obs.select = IF select THEN d % 8 ELSE obs.select,
                        !.obs.mode = IF select THEN (d \div 64) % 2 ELSE obs.mode,
                        !.obs.r6 = IF data /\ obs.select = 6 THEN d ELSE obs.r6,
                        !.obs.r7 = IF data /\ obs.select = 7 THEN d ELSE obs.r7])
    /\ UNCHANGED pc

NextBank == BankLoad \/ BankWrite

SpecBank == InitWith("bank", NoCartridge) /\ [][NextBank]_vars

\* offsets within an 8 KiB window
BankOffsets == {0, 4097, 8191}

\* byte off of the 8 KiB PRG bank n of the loaded image
BankByte(n, off) == DataByte(cart.data, cart.prgOff + n * 8192 + off)

-----------------------------------------------------------------------------
(* Pixel composition: the program of the rendering run, with a different   *)
(* byte in each palette entry the pixels can select: 0x51 in entry 3 of    *)
(* background palette 0, 0x62 and 0x73 in entry 3 of sprite palettes 1 and *)
(* 2                                                                       *)

MaxCompositeLines == 2

\* PPUMASK: background only, sprites only, both with the left edge shown
CompositeMasks == {8, 16, 30}

CompositeSetup ==
    /\ ~obs.started /\ obs.lastOp = "none"
    /\ \E b0 \in BackdropBytes, a \in SpriteAttributes, m \in CompositeMasks :
          \E s1 \in {StoreVRAM(Sys, 16128, b0, 81)} :
          \E s2 \in {StoreVRAM(s1, 16149, 98, 98)} :
          \E s3 \in {StoreVRAM(s2, 16153, 115, 115)} :
          \* the address register back at 0, sprite 0 at X = 24
          \E s4 \in {StoreSprite0(BusWrite(BusWrite(s3, 8198, 0), 8198, 0), a)} :
              SetSys([BusWrite(s4, 8193, m) EXCEPT !.obs.lastOp = "setup"])
    /\ UNCHANGED pc

CompositeTick ==
    /\ obs.lastOp # "none"
    /\ ppu.frame = 0
    /\ ppu.scanline < MaxCompositeLines
    /\ \E n \in {TickPixel(Sys)} : SetSys([n EXCEPT !.obs.lastOp = "tick"])
    /\ UNCHANGED pc

NextComposite == CompositeSetup \/ CompositeTick

SpecComposite ==
    InitWith("composite", LoadFromBytes(Image(0, 1, 1, 0))) /\ [][NextComposite]_vars

\* the palette and pixel the claim's rule chooses for the pixel about to be output
PixelChosen ==
    LET bg == BackgroundPixel(Sys)
        sp == renderSprites(Sys, ppu.cycle - 1)
        sprite == [palette |-> sp.palette + 4, pixel |-> sp.pixel]
    IN CASE bg.pixel = 0 /\ sp.pixel = 0 -> [palette |-> 0, pixel |-> 0]
         [] bg.pixel = 0 /\ sp.pixel # 0 -> sprite
         [] bg.pixel # 0 /\ sp.pixel = 0 -> [palette |-> bg.palette, pixel |-> bg.pixel]
         [] OTHER -> IF sp.priority THEN sprite
                     ELSE [palette |-> bg.palette, pixel |-> bg.pixel]

\* C37: with rendering enabled, the byte a tick stores for its pixel is the low six
\* bits of the palette RAM entry (palette << 2) | pixel of the pixel chosen from the
\* background pixel and the first opaque sprite pixel: the backdrop when both are
\* zero, the one that is nonzero when the other is zero, and when both are nonzero
\* the sprite if its priority bit is 0, else the background
PixelComposedByPriority ==
    [][(obs'.lastOp = "tick" /\ VisibleDot(ppu) /\ IsRenderingEnabled(ppu.mask))
          => FBRead(pix'.frameBuffer, ppu.scanline * ScreenWidth + ppu.cycle - 1)
                = MemRead(vmem.paletteRAM, PixelChosen.palette * 4 + PixelChosen.pixel) % 64]_vars

\* C37 witness: sprite 0, behind the background, and the background are both opaque
\* at x = 31 of the second scanline, and the frame buffer holds the low six bits of
\* the background's palette entry there
BackgroundOverSprite ==
    /\ ppu.mask = 30 /\ ppu.scanline = 1 /\ ppu.cycle = 33
    /\ renderSprites(Sys, 31).pixel = 3 /\ ~renderSprites(Sys, 31).priority
    /\ Bit(ppu.status, 6) = 1
    /\ MemRead(vmem.paletteRAM, 3) = 81 /\ MemRead(vmem.paletteRAM, 27) = 115
    /\ FBRead(pix.frameBuffer, ScreenWidth + 31) = 17


-----------------------------------------------------------------------------
(* MMC3 IRQ flags: a program that writes the IRQ latch, reload, disable and *)
(* enable registers in any order, the PPU's scanline() calls and the bus's  *)
(* acknowledgement of the IRQ in between                                    *)

MaxFlagWrites == 4
MaxFlagCalls == 4

\* $C000 (latch), $C001 (reload), $E000 and its mirror $FFFE (disable), $E001 (enable)
IRQRegs == {49152, 49153, 57344, 65534, 57345}

IRQLatches == {0, 1, 2}

\* STA to an IRQ register; the run keeps whether the IRQ was pending before it
FlagWrite ==
    /\ obs.writes < MaxFlagWrites
    /\ \E a \in IRQRegs, d \in IRQLatches :
          /\ m4' = Mapper4WritePRG(m4, a, d)
          /\ obs' = [obs EXCEPT !.writes = obs.writes + 1, !.lastOp = "write",
                                !.lastAddr = a, !.lastValue = d,
                                !.pendingWas = IRQPending(m4)]
    /\ UNCHANGED <<ppu, oam, oamAddress, cpuRAM, dma, cpu, pc, rest>>

\* mapper.Scanline()
FlagScanline ==
    /\ obs.calls < MaxFlagCalls
    /\ m4' = Mapper4Scanline(m4)
    /\ obs' = [obs EXCEPT !.calls = obs.calls + 1, !.lastOp = "scanline"]
    /\ UNCHANGED <<ppu, oam, oamAddress, cpuRAM, dma, cpu, pc, rest>>

\* mapper.ClearIRQ()
FlagClearIRQ ==
    /\ IRQPending(m4)
    /\ m4' = ClearIRQ(m4)
    /\ obs' = [obs EXCEPT !.lastOp = "clear"]
    /\ UNCHANGED <<ppu, oam, oamAddress, cpuRAM, dma, cpu, pc, rest>>

NextFlags == FlagWrite \/ FlagScanline \/ FlagClearIRQ

SpecFlags == InitWatching("flags") /\ [][NextFlags]_vars

\* C38: in every reachable mapper state a pending IRQ implies that the IRQ is
\* enabled; scanline() sets pending only while the IRQ is enabled, and a write to an
\* even address in $E000-$FFFF clears both the enable and the pending flag
PendingImpliesEnabled ==
    /\ [](IRQPending(m4) => m4.irqEnabled)
    /\ [][/\ (~IRQPending(m4) /\ IRQPending(m4')) =>
                 (obs'.lastOp = "scanline" /\ m4.irqEnabled)
          /\ (obs'.lastOp = "write" /\ obs'.lastAddr >= 57344 /\ obs'.lastAddr % 2 = 0) =>
                 (~m4'.irqEnabled /\ ~IRQPending(m4'))]_vars

\* C38 witness: the IRQ was pending and a write to $FFFE has taken away the enable
\* and the pending flag together
DisabledWhilePending ==
    /\ obs.lastOp = "write" /\ obs.lastAddr = 65534 /\ obs.pendingWas
    /\ obs.writes = 2 /\ obs.calls = 1
    /\ ~m4.irqEnabled /\ ~IRQPending(m4)


-----------------------------------------------------------------------------
(* The NMI latch tick by tick: the PPU is clocked through two frames, the   *)
(* program writes PPUCTRL around the start of vertical blank, later in     *)
(* vertical blank and on the pre-render line, and the system polls the     *)
(* latch as NES.Step does                                                  *)

MaxNMIFrames == 2
MaxControlWrites == 2

\* the positions at which the program writes PPUCTRL
ControlWindow ==
    \/ ppu.scanline = 240 /\ ppu.cycle = 0
    \/ ppu.scanline = 241 /\ ppu.cycle \in {1, 2}
    \/ ppu.scanline = 250 /\ ppu.cycle = 0
    \/ ppu.scanline = -1 /\ ppu.cycle = 0

\* STA $2000 with bit 7 set or clear
LatchWrite ==
    /\ ~GetNMI(ppu)
    /\ ControlWindow
    /\ obs.writes < MaxControlWrites
    /\ \E d \in {0, 128} :
          /\ EnableNMI(d) # EnableNMI(ppu.control)
          /\ SetSys([BusWrite(Sys, 8192, d) EXCEPT !.obs.writes = obs.writes + 1,
                                                   !.obs.lastOp = "write"])
    /\ UNCHANGED pc

LatchTick ==
    /\ ~GetNMI(ppu)
    /\ ppu.frame < MaxNMIFrames
    /\ SetSys([Tick(Sys) EXCEPT !.obs.lastOp = "tick"])
    /\ UNCHANGED pc

\* the NMI check of NES.Step, finding the latch set; it comes before the next
\* access of the program and within the three ticks of the step
LatchPoll ==
    /\ GetNMI(ppu)
    /\ SetSys([StepInterrupts(Sys) EXCEPT !.obs.lastOp = "poll"])
    /\ UNCHANGED pc

NextLatch == LatchWrite \/ LatchTick \/ LatchPoll

SpecLatch == InitWatching("nmi") /\ [][NextLatch]_vars

\* C39: the NMI latch becomes true only in the tick of scanline 241 cycle 1, with
\* PPUCTRL bit 7 set at that tick; with the bit clear at that tick no NMI is raised
\* in the frame, whatever is written to PPUCTRL later, and at most one NMI is
\* raised per frame
NMILatchedOnlyAtVBlankStart ==
    /\ [][(~GetNMI(ppu) /\ GetNMI(ppu')) =>
             /\ obs'.lastOp = "tick"
             /\ ppu.scanline = 241 /\ ppu.cycle = 1 /\ EnableNMI(ppu.control)]_vars
    /\ [](obs.nmiRaised <= obs.nmiDue /\ obs.nmiDue <= 1)

\* C39 witness: PPUCTRL bit 7 was clear at scanline 241 cycle 1 and has been set
\* right after it, VBlank is still set ten scanlines later, and no NMI has been
\* latched or raised
NoNMIAfterLateEnable ==
    /\ ppu.frame = 0 /\ ppu.scanline = 251 /\ ppu.cycle = 0
    /\ obs.writes = 1 /\ EnableNMI(ppu.control) /\ VBlank(ppu.status)
    /\ obs.nmiDue = 0 /\ obs.nmiRaised = 0 /\ ~GetNMI(ppu) /\ ~cpu.NMIPending


-----------------------------------------------------------------------------
(* MMC1 mirroring: an MMC1 cartridge is loaded with horizontal or vertical *)
(* mirroring in its header and the program writes to the serial port.  The *)
(* run keeps, from the writes alone, the value of the last commit to the   *)
(* control register.                                                       *)

MaxModeWrites == 6

ModeLoad ==
    /\ ~cart.ok
    /\ \E low \in {0, 1} : SetSys(Boot(Sys, Image(1, 1, 1, low)))
    /\ UNCHANGED pc

\* the control register and the CHR bank 0 register
ModeRegs == {32768, 40960}

\* STA to the serial port: bit 0 set, bit 0 clear, reset
ModeWrite ==
    /\ cart.ok
    /\ obs.writes < MaxModeWrites
    /\ \E a \in ModeRegs, d \in MMC1Values :
          LET bits == obs.bits + (d % 2) * (2 ^ obs.pos)
              commit == d < 128 /\ obs.pos = 4 /\ a < 40960
          IN SetSys([BusWrite(Sys, a, d) EXCEPT
                        !.obs.writes = obs.writes + 1, !.obs.lastOp = "write",
                        !.obs.lastAddr = a, !.obs.lastValue = d,
                        !.obs.pos = IF d >= 128 THEN 0 ELSE (obs.pos + 1) % 5,
                        !.obs.bits = IF d >= 128 \/ obs.pos = 4 THEN 0 ELSE bits,
                        !.obs.committed = obs.committed \/ commit,
                        !.obs.control = IF commit THEN bits ELSE obs.control])
    /\ UNCHANGED pc

NextMode == ModeLoad \/ ModeWrite

SpecMode == InitWith("mode", NoCartridge) /\ [][NextMode]_vars

\* the mode the low two control bits select
ControlMirroring(control) ==
    CASE control % 4 = 0 -> MirrorSingleLow
      [] control % 4 = 1 -> MirrorSingleHigh
      [] control % 4 = 2 -> MirrorVertical
      [] OTHER -> MirrorHorizontal

\* C40: before any commit to the control register GetMirroring() returns the
\* header's mode (Horizontal or Vertical), afterwards the mode selected by the low
\* two bits of the last value committed
MMC1MirroringFromHeaderThenControl ==
    cart.ok =>
        MapperGetMirroring(Sys) = IF obs.committed THEN ControlMirroring(obs.control)
                                  ELSE cart.mirroring

=============================================================================
